---- MODULE Spec2Model ----
(***************************************************************************)
(* Routing-and-execution pipeline of the AI gateway:                       *)
(*   gateway/routing/router.py   RoutingEngine                             *)
(*   gateway/core/models.py      ModelRegistry                             *)
(*   gateway/providers/registry.py ProviderRegistry                        *)
(*   gateway/core/executor.py    RequestContext, RequestExecutor           *)
(*   gateway/usage/storage.py    InMemoryUsageStorage                      *)
(*   gateway/api/v1/*.py         HTTP endpoints                            *)
(*                                                                         *)
(* Strings that the code inspects (model identifiers, router names) are    *)
(* sequences of tokens, so that startswith/split are computed; a message   *)
(* built by an f-string is the tuple of its literal part and its argument. *)
(***************************************************************************)
EXTENDS Integers, Sequences, FiniteSets, TLC

VARIABLES
    router_map,   \* RoutingEngine._router_map : router name -> Router
    models,       \* ModelRegistry._models     : model id -> ModelDefinition
    loaded,       \* ModelRegistry._loaded
    models_file,  \* what the default models file holds, None when it is missing
    providers,    \* ProviderRegistry._providers : provider name -> instance
    provider_classes, \* ProviderRegistry._provider_classes : names with a class
    gp,           \* registry harness: the get_provider call of each caller
    built,        \* registry harness: constructor runs so far, by provider name
    running,      \* registry harness: the caller whose call holds the thread
    records,      \* InMemoryUsageStorage.records
    call,         \* the execute_* call in progress or last ended, None before any
    ncalls,       \* execute_* calls started so far
    lastReq,      \* routing harness: the request last passed to resolve
    lastDraw,     \* routing harness: the value random.uniform returned
    lastPick,     \* routing harness: the index random.choice picked
    lastRes,      \* routing harness: what resolve returned or raised
    routeCount,   \* routing harness: resolve calls so far, counted up to MaxRoutes
    adapter,      \* adapter harness: the adapter operation last run, None before any
    reload,       \* catalog harness: the load_models call last run, None before any
    limiter       \* limiter harness: the RateLimiter, its clock and its callers

vars == <<router_map, models, loaded, models_file, providers, records, call, ncalls,
          lastReq, lastDraw, lastPick, lastRes, routeCount,
          provider_classes, gp, built, running,
                adapter, reload, limiter>>

\* Optional values: None, or Some(x) holding x
None == <<>>
Some(x) == <<x>>
The(o) == o[1]

(***************************************************************************)
(* Bounds                                                                  *)
(***************************************************************************)
MaxRoutes == 2      \* resolve calls the routing harness counts
MaxPick == 2        \* largest value the generator behind random.choice yields
MaxCalls == 2       \* execute_* calls in one behaviour
MaxChunks == 2      \* chunks an upstream stream produces at most
MaxCallers == 3     \* callers of get_provider
MaxMessages == 3    \* messages of a request handed to _convert_messages
MaxWords == 2       \* pieces of text in an exception's message
MaxBlocks == 2      \* content blocks of an upstream answer
MaxDeltas == 2      \* deltas the upstream cuts a content block into
MaxEntries == 2     \* entries of a models file
MaxRate == 2        \* largest rate_limit a RateLimiter is built with
MaxPeriod == 2      \* largest period, in clock ticks
MaxTime == 4        \* clock ticks in one behaviour
MaxLimiterCalls == 4  \* check_rate_limit calls in one behaviour
MaxLimiterCallers == 2  \* requests calling check_rate_limit at a time

(***************************************************************************)
(* Strings as token sequences                                              *)
(***************************************************************************)
RouterPrefix == <<"router", "/">>

StartsWithNever(s, p) == FALSE

\* str.startswith(prefix)
StartsWith(s, p) == Len(s) >= Len(p) /\ SubSeq(s, 1, Len(p)) = p

\* index of the first "/" in s, 0 when there is none
RECURSIVE FirstSlash(_, _)
FirstSlash(s, i) ==
    IF i > Len(s) THEN 0
    ELSE IF s[i] = "/" THEN i
    ELSE FirstSlash(s, i + 1)

\* s.split("/", 1)[1] for an s that contains "/"
AfterFirstSlash(s) == SubSeq(s, FirstSlash(s, 1) + 1, Len(s))

(***************************************************************************)
(* Errors (gateway/errors/exceptions.py): an exception is its class and    *)
(* its message.                                                            *)
(***************************************************************************)
Err(kind, msg) == [kind |-> kind, msg |-> msg]

\* How a call ended; drew names the random source the call consumed.
Raised(e) == [outcome |-> "raised", err |-> e, drew |-> "none"]
Returned(v) == [outcome |-> "returned", value |-> v, drew |-> "none"]
Drew(r, d) == [r EXCEPT !.drew = d]

(***************************************************************************)
(* ModelRegistry (gateway/core/models.py)                                  *)
(***************************************************************************)
\* InferenceProviderConfig: the two fields routing reads
ModelDef(model_name, provider) == [model_name |-> model_name, provider |-> provider]

\* What the default models file holds: the definitions startup loads.
\* One id is spelled like a router reference.
DefaultCatalog ==
    (<<"gpt">> :> ModelDef(<<"gpt-up">>, "openai")) @@
    (<<"claude">> :> ModelDef(<<"claude-up">>, "anthropic")) @@
    (<<"gem">> :> ModelDef(<<"gem-up">>, "gemini")) @@
    (<<"router", "/", "ghost">> :> ModelDef(<<"ghost-up">>, "openai"))

EmptyCatalog == [x \in {} |-> ModelDef(<<>>, "")]

Catalogs == {DefaultCatalog, EmptyCatalog}

\* ModelRegistry.load_models() as get_model calls it (no path, no force):
\* the state of (_models, _loaded) after the call, given what the file holds.
LoadModels(ms, ld, file) ==
    IF ld THEN [models |-> ms, loaded |-> ld]
    ELSE IF file = None THEN [models |-> ms, loaded |-> ld]
    ELSE [models |-> The(file), loaded |-> TRUE]

\* ModelRegistry.get_model: dict.get on _models, None when absent
GetModel(ms, model_id) ==
    IF model_id \in DOMAIN ms THEN Some(ms[model_id]) ELSE None

(***************************************************************************)
(* Routers (gateway/config/models.py) and targets                          *)
(***************************************************************************)
\* A target is a dict: a function from the keys it holds to their values.
Tgt(model, provider) == [model |-> model, provider |-> provider]

Strategy(type) == [type |-> type]
Percentage(weights) == [type |-> "percentage", targets_percentages |-> weights]
Optimized == [type |-> "optimized", metric |-> "latency"]

Router(name, strategy, targets) ==
    [name |-> name, strategy |-> strategy, targets |-> targets]

TA == Tgt(<<"gpt-up">>, "openai")
TB == Tgt(<<"claude-up">>, "anthropic")
TC == [model |-> <<"claude-hot">>, provider |-> "anthropic", temperature |-> 1]
\* a target with a key that is a field of the request and one that is none
TD == [model |-> <<"gpt-hot">>, provider |-> "openai", temperature |-> 1, region |-> "eu"]

GetRouterByFullId(rm, name) ==
    IF RouterPrefix \o name \in DOMAIN rm THEN Some(rm[RouterPrefix \o name]) ELSE None

\* RoutingEngine.get_router: dict.get on _router_map
GetRouter(rm, name) == IF name \in DOMAIN rm THEN Some(rm[name]) ELSE None

RECURSIVE SumSeq(_)
SumSeq(s) == IF s = <<>> THEN 0 ELSE s[1] + SumSeq(Tail(s))

RECURSIVE PctWalkStrict(_, _, _, _, _)
PctWalkStrict(pcts, den, rand, i, cumulative) ==
    IF i > Len(pcts) THEN 0
    ELSE LET cum == cumulative + pcts[i]
         IN IF rand * den < cum THEN i
            ELSE PctWalkStrict(pcts, den, rand, i + 1, cum)

\* The loop of _apply_percentage_strategy: pcts are the percentages as
\* numerators over the common denominator den (den > 0), rand the draw.
\* Returns the index the loop returns at, 0 when the loop ends without one.
RECURSIVE PctWalk(_, _, _, _, _)
PctWalk(pcts, den, rand, i, cumulative) ==
    IF i > Len(pcts) THEN 0
    ELSE LET cum == cumulative + pcts[i]
         IN IF rand * den <= cum THEN i
            ELSE PctWalk(pcts, den, rand, i + 1, cum)

ApplyFallbackLast(router) ==
    IF router.targets = <<>>
    THEN Raised(Err("RouterError", <<"Router has no targets", router.name>>))
    ELSE Returned(router.targets[Len(router.targets)])

\* RoutingEngine._apply_fallback_strategy
ApplyFallback(router) ==
    IF router.targets = <<>>
    THEN Raised(Err("RouterError", <<"Router has no targets", router.name>>))
    ELSE Returned(router.targets[1])

ApplyPercentageTruncating(router, rand) ==
    IF router.targets = <<>>
    THEN Raised(Err("RouterError", <<"Router has no targets", router.name>>))
    ELSE LET n == IF Len(router.strategy.targets_percentages) < Len(router.targets)
                  THEN Len(router.strategy.targets_percentages) ELSE Len(router.targets)
             percentages == SubSeq(router.strategy.targets_percentages, 1, n)
             total == SumSeq(percentages)
         IN IF total <= 0
            THEN Raised(Err("ZeroDivisionError", <<"division by zero">>))
            ELSE LET i == PctWalk([k \in 1..n |-> percentages[k] * 100], total, rand, 1, 0)
                 IN Drew(Returned(router.targets[IF i # 0 THEN i ELSE n]), "uniform")

\* RoutingEngine._apply_percentage_strategy; rand is what random.uniform
\* returns when it is reached.
ApplyPercentage(router, rand) ==
    IF router.targets = <<>>
    THEN Raised(Err("RouterError", <<"Router has no targets", router.name>>))
    ELSE IF "targets_percentages" \notin DOMAIN router.strategy
    THEN Raised(Err("RouterError", <<"Percentage strategy requires targets_percentages">>))
    ELSE LET percentages == router.strategy.targets_percentages
             total == SumSeq(percentages)
         IN IF Len(percentages) # Len(router.targets)
            THEN Raised(Err("RouterError",
                    <<"Number of percentages does not match number of targets",
                      ToString(Len(percentages)), ToString(Len(router.targets))>>))
            ELSE IF total = 0
            THEN Raised(Err("ZeroDivisionError", <<"division by zero">>))
            ELSE LET scaled == IF total # 100
                               THEN [k \in 1..Len(percentages) |-> percentages[k] * 100]
                               ELSE percentages
                     den == IF total # 100 THEN total ELSE 1
                     \* p * 100 / total over a negative total: keep den > 0
                     pcts == IF den < 0 THEN [k \in 1..Len(scaled) |-> 0 - scaled[k]]
                             ELSE scaled
                     aden == IF den < 0 THEN 0 - den ELSE den
                     i == PctWalk(pcts, aden, rand, 1, 0)
                 IN IF i # 0 THEN Drew(Returned(router.targets[i]), "uniform")
                    ELSE Drew(Returned(router.targets[Len(router.targets)]), "uniform")

RandomChoiceUnreduced(seq, pick) ==
    IF pick + 1 \in 1..Len(seq) THEN seq[pick + 1] ELSE [model |-> <<>>, provider |-> ""]

\* random.choice(seq): seq[_randbelow(len(seq))], pick the generator's value
RandomChoice(seq, pick) == seq[(pick % Len(seq)) + 1]

\* RoutingEngine._apply_random_strategy
ApplyRandom(router, pick) ==
    IF router.targets = <<>>
    THEN Raised(Err("RouterError", <<"Router has no targets", router.name>>))
    ELSE Drew(Returned(RandomChoice(router.targets, pick)), "choice")

\* RoutingEngine._apply_optimized_strategy
ApplyOptimized(router, pick) ==
    IF router.targets = <<>>
    THEN Raised(Err("RouterError", <<"Router has no targets", router.name>>))
    ELSE IF "metric" \notin DOMAIN router.strategy
    THEN Raised(Err("RouterError", <<"Optimized strategy requires a metric selector">>))
    ELSE Drew(Returned(RandomChoice(router.targets, pick)), "choice")

\* The strategy dispatch inside the try of _apply_routing_strategy
DispatchStrategy(router, rand, pick) ==
    LET strategy_type == router.strategy.type
    IN IF strategy_type = "fallback" THEN ApplyFallback(router)
       ELSE IF strategy_type = "percentage" THEN ApplyPercentage(router, rand)
       ELSE IF strategy_type = "random" THEN ApplyRandom(router, pick)
       ELSE IF strategy_type = "optimized" THEN ApplyOptimized(router, pick)
       ELSE Raised(Err("RouterError", <<"Unknown routing strategy", strategy_type>>))

ApplyRoutingStrategyNullOnEmpty(router, rand, pick) ==
    IF router.targets = <<>>
    THEN Returned(None)
    ELSE LET r == DispatchStrategy(router, rand, pick)
         IN IF r.outcome = "raised"
            THEN Drew(Raised(Err("RouterError", <<"Routing strategy error", r.err.msg>>)),
                      r.drew)
            ELSE r

\* RoutingEngine._apply_routing_strategy: the empty check, then the dispatch
\* whose every exception is re-raised as RouterError
ApplyRoutingStrategy(router, rand, pick) ==
    IF router.targets = <<>>
    THEN Raised(Err("RouterError", <<"Router has no targets", router.name>>))
    ELSE LET r == DispatchStrategy(router, rand, pick)
         IN IF r.outcome = "raised"
            THEN Drew(Raised(Err("RouterError", <<"Routing strategy error", r.err.msg>>)),
                      r.drew)
            ELSE r

DirectTargetById(model_name, model) ==
    [model |-> model_name, provider |-> model.provider]

\* The direct target route_chat_request builds from a model definition
DirectTarget(model_name, model) ==
    [model |-> model.model_name, provider |-> model.provider]

\* What a call of route_chat_request leaves of the router map: the strategies
\* read router.targets and assign nothing.
RouterMapAfterRoute(rm, request) == rm

\* RoutingEngine.route_chat_request ("resolve"): rm is the router map, ms the
\* catalog as get_model sees it.
RouteChatRequest(rm, ms, request, rand, pick) ==
    LET model_name == request.model
    IN IF StartsWith(model_name, RouterPrefix)
       THEN LET router_name == AfterFirstSlash(model_name)
                router == GetRouter(rm, router_name)
            IN IF router = None
               THEN Raised(Err("RouterError", <<"Router not found", router_name>>))
               ELSE ApplyRoutingStrategy(The(router), rand, pick)
       ELSE LET model == GetModel(ms, model_name)
            IN IF model = None
               THEN Raised(Err("ModelNotFoundError", <<"Model not found", model_name>>))
               ELSE Returned(DirectTarget(model_name, The(model)))

(***************************************************************************)
(* ProviderRegistry (gateway/providers/registry.py)                        *)
(***************************************************************************)
\* _provider_classes as __init__ leaves it; nothing in the package registers
\* a class
ProviderClasses == {}

\* _provider_modules as __init__ fills it
ProviderModules == {"openai", "anthropic", "gemini", "bedrock", "azure", "mistral"}

\* The names whose module exists in the package and defines a class named
\* <name.capitalize()>Provider: openai.py defines OpenAIProvider, and there
\* is no gemini, bedrock or mistral module.
ImportableProviders == {"anthropic", "azure"}

\* An adapter instance: the provider it serves and which constructor run
\* built it (0 for one built at startup and handed to register_provider)
Instance(name, serial) == [name |-> name, serial |-> serial]

\* _providers as __init__ leaves it, and after startup registered its adapters
NoProviders == [x \in {} |-> Instance("", 0)]
StartupProviders == [n \in {"openai", "anthropic"} |-> Instance(n, 0)]

ConstructibleAnyModule(pcs, provider_name) ==
    \/ provider_name \in pcs
    \/ provider_name \in ProviderModules

\* can get_provider construct an adapter for the name: from a registered
\* class, or from the class its module is searched for
Constructible(pcs, provider_name) ==
    \/ provider_name \in pcs
    \/ provider_name \in ProviderModules /\ provider_name \in ImportableProviders

\* ProviderRegistry.get_provider run from entry to return: the instance or
\* None, and _providers after. An absent name has never been constructed
\* (no entry of _providers is ever removed), so the instance is the first.
GetProvider(ps, pcs, provider_name) ==
    IF provider_name \in DOMAIN ps
    THEN [provider |-> Some(ps[provider_name]), providers |-> ps]
    ELSE IF Constructible(pcs, provider_name)
    THEN [provider |-> Some(Instance(provider_name, 1)),
          providers |-> (provider_name :> Instance(provider_name, 1)) @@ ps]
    ELSE [provider |-> None, providers |-> ps]

(***************************************************************************)
(* Routing harness: resolve applied to bounded inputs                      *)
(***************************************************************************)
DrawLimit == 100    \* random.uniform(0, 100)
Draws == 0..(DrawLimit - 1)
Picks == 0..MaxPick

FB == <<"fb">>
PCT == <<"pct">>
RND == <<"rnd">>
OPT == <<"opt">>

\* The weight lists a percentage router is configured with
WeightLists ==
    { <<70, 30>>, <<1, 2>>, <<0, 100>>, <<100, 0>>, <<3, 0, 7>>, <<50, 25, 25>>,
      <<100>>, <<0, 0>> }

\* Percentage routers whose weights and targets differ in number
MismatchedPool ==
    { Router(PCT, Percentage(<<70, 30>>), <<TA, TB, TC>>),
      Router(PCT, Percentage(<<50, 25, 25>>), <<TA, TB>>),
      Router(PCT, Percentage(<<>>), <<TA>>),
      Router(PCT, Percentage(<<100>>), <<TB, TA>>) }

\* The routers configuration supplies, by name
RouterPool ==
    { Router(FB, Strategy("fallback"), ts) : ts \in {<<TB, TA>>, <<TA, TB, TC>>} } \cup
    { Router(PCT, Percentage(w), IF Len(w) = 3 THEN <<TA, TB, TC>> ELSE <<TA, TB>>) :
        w \in WeightLists } \cup
    MismatchedPool \cup
    { Router(OPT, Optimized, <<TB, TC>>) }

\* RoutingEngine.__init__ over the configured routers
InitialRouterMap ==
    (FB :> Router(FB, Strategy("fallback"), <<TB, TA>>)) @@
    (PCT :> Router(PCT, Percentage(<<70, 30>>), <<TA, TB>>)) @@
    (RND :> Router(RND, Strategy("random"), <<TA, TB, TC>>)) @@
    (<<"efb">> :> Router(<<"efb">>, Strategy("fallback"), <<>>)) @@
    (<<"epct">> :> Router(<<"epct">>, Percentage(<<>>), <<>>)) @@
    (<<"ernd">> :> Router(<<"ernd">>, Strategy("random"), <<>>)) @@
    (<<"eopt">> :> Router(<<"eopt">>, Optimized, <<>>))

RouteIds ==
    { <<"gpt">>, <<"claude">>, <<"nomodel">>, <<"router">>,
      <<"router", "/", "fb">>, <<"router", "/", "pct">>, <<"router", "/", "rnd">>,
      <<"router", "/", "opt">>, <<"router", "/", "ghost">>, <<"router", "/">>,
      <<"router", "/", "efb">>, <<"router", "/", "epct">>, <<"router", "/", "ernd">>,
      <<"router", "/", "eopt">> }

\* ChatCompletionRequest: the model and what else a request carries
ChatRequest(model, messages, temperature, stream) ==
    [model |-> model, messages |-> messages, temperature |-> temperature,
     stream |-> stream]

\* a message list is the list of the messages' contents, a content its words
MessageLists == { << <<"hi">> >>, << <<"count", "to", "three">>, <<"please">> >> }

RouteRequests == { ChatRequest(m, ms, None, FALSE) : m \in RouteIds, ms \in MessageLists }

\* The registry as model_registry.get_model leaves it when route_chat_request
\* reaches the direct lookup; a router reference never reaches it.
RegistryAfterRoute(ms, ld, file, request) ==
    IF StartsWith(request.model, RouterPrefix)
    THEN [models |-> ms, loaded |-> ld]
    ELSE LoadModels(ms, ld, file)

\* RoutingEngine.add_router
AddRouterMap(rm, router) == (router.name :> router) @@ rm

\* The names get_provider is asked for, and the callers that ask
ProviderNames == {"openai", "anthropic", "azure", "gemini", "custom"}
Callers == 1..MaxCallers
IdleCall ==
    [pc |-> "idle", name |-> "", before |-> None, known |-> FALSE, local |-> None,
     result |-> None]

\* no get_provider call has been made; the registry holds the classes
\* __init__ gave it
RegistryIdle ==
    /\ adapter = None
    /\ reload = None
    /\ limiter = None
    /\ provider_classes = ProviderClasses
    /\ gp = [p \in Callers |-> IdleCall]
    /\ built = [n \in ProviderNames |-> 0]
    /\ running = None

InitRegistry ==
    \/ loaded = FALSE /\ models = EmptyCatalog /\ models_file \in {None, Some(DefaultCatalog)}
    \/ loaded = TRUE /\ models = DefaultCatalog /\ models_file = Some(DefaultCatalog)

InitRoute ==
    /\ router_map = InitialRouterMap
    /\ InitRegistry
    /\ providers = NoProviders
    /\ RegistryIdle
    /\ records = <<>>
    /\ call = None
    /\ ncalls = 0
    /\ lastReq = None
    /\ lastDraw = None
    /\ lastPick = None
    /\ lastRes = None
    /\ routeCount = 0

\* A request reaches the routing engine
Ask ==
    /\ \E request \in RouteRequests : lastReq' = Some(request)
    /\ lastDraw' = None
    /\ lastPick' = None
    /\ lastRes' = None
    /\ UNCHANGED <<router_map, models, loaded, models_file, providers, records, call, ncalls,
                   routeCount, provider_classes, gp, built, running,
                adapter, reload, limiter>>

\* One call of route_chat_request on the request that arrived
Resolve ==
    /\ lastReq # None
    /\ lastRes = None
    /\ \E rand \in Draws, pick \in Picks :
         LET request == The(lastReq)
             reg == RegistryAfterRoute(models, loaded, models_file, request)
             res == RouteChatRequest(router_map, reg.models, request, rand, pick)
         IN /\ models' = reg.models
            /\ loaded' = reg.loaded
            /\ lastDraw' = IF res.drew = "uniform" THEN Some(rand) ELSE None
            /\ lastPick' = IF res.drew = "choice" THEN Some(pick) ELSE None
            /\ lastRes' = Some(res)
    /\ router_map' = RouterMapAfterRoute(router_map, The(lastReq))
    /\ routeCount' = IF routeCount < MaxRoutes THEN routeCount + 1 ELSE routeCount
    /\ UNCHANGED <<models_file, providers, records, call, ncalls, lastReq,
                   provider_classes, gp, built, running,
                adapter, reload, limiter>>

\* add_router: the entry of that name is replaced whole; what was observed
\* under the previous configuration is dropped.
AddRouter ==
    /\ \E router \in RouterPool : router_map' = AddRouterMap(router_map, router)
    /\ router_map' # router_map
    /\ lastReq' = None
    /\ lastDraw' = None
    /\ lastPick' = None
    /\ lastRes' = None
    /\ UNCHANGED <<models, loaded, models_file, providers, records, call, ncalls, routeCount,
                   provider_classes, gp, built, running,
                adapter, reload, limiter>>

NextRoute == Ask \/ Resolve \/ AddRouter

SpecRoute == InitRoute /\ [][NextRoute]_vars

(***************************************************************************)
(* Claims about resolve                                                    *)
(***************************************************************************)
\* The request resolve was last called with, and how that call ended
Resolved == lastReq # None /\ lastRes # None
ReqModel == The(lastReq).model
Res == The(lastRes)

\* A router reference: the reserved prefix "router/" followed by a name
IsRouterRef(id) == Len(id) >= 2 /\ id[1] = "router" /\ id[2] = "/"
RouterNameOf(id) == [k \in 1..(Len(id) - 2) |-> id[k + 2]]

RaisedKind(r, kind) == r.outcome = "raised" /\ r.err.kind = kind
Elems(seq) == { seq[k] : k \in 1..Len(seq) }

\* C7: a direct (non-router) request resolves to exactly the catalog's
\* {upstream model name, provider} for that id, with no strategy applied and
\* no random value drawn; an id the catalog does not hold raises
\* ModelNotFoundError. The catalog is the one get_model reads, after its
\* load on first use.
C7_DirectLookup ==
    (Resolved /\ ~IsRouterRef(ReqModel)) =>
        IF ReqModel \in DOMAIN models
        THEN /\ Res.outcome = "returned"
             /\ Res.value = [model |-> models[ReqModel].model_name,
                             provider |-> models[ReqModel].provider]
             /\ DOMAIN Res.value = {"model", "provider"}
             /\ Res.drew = "none"
        ELSE /\ RaisedKind(Res, "ModelNotFoundError")
             /\ Res.err.msg = <<"Model not found", ReqModel>>

C7_Witness ==
    /\ Resolved
    /\ ReqModel = <<"claude">>
    /\ Res.outcome = "returned"
    /\ Res.value = [model |-> <<"claude-up">>, provider |-> "anthropic"]

C7_WitnessUnknown ==
    /\ Resolved
    /\ ReqModel = <<"nomodel">>
    /\ loaded
    /\ RaisedKind(Res, "ModelNotFoundError")

\* C8: an id that begins with "router/" is resolved against the router map
\* alone: RouterError when no router has that name, even when the catalog
\* holds a model of that very id; otherwise a target of that router or a
\* RouterError; never ModelNotFoundError.
C8_RouterRefOnlyRouterMap ==
    (Resolved /\ IsRouterRef(ReqModel)) =>
        /\ ~RaisedKind(Res, "ModelNotFoundError")
        /\ Res.outcome = "raised" => Res.err.kind = "RouterError"
        /\ IF RouterNameOf(ReqModel) \notin DOMAIN router_map
           THEN /\ RaisedKind(Res, "RouterError")
                /\ Res.err.msg = <<"Router not found", RouterNameOf(ReqModel)>>
           ELSE Res.outcome = "returned" =>
                    Res.value \in Elems(router_map[RouterNameOf(ReqModel)].targets)

C8_Witness ==
    /\ Resolved
    /\ ReqModel = <<"router", "/", "ghost">>
    /\ ReqModel \in DOMAIN models
    /\ RaisedKind(Res, "RouterError")

\* The index the percentage walk is specified to return: the smallest i whose
\* cumulative weight, normalized to a total of 100, is >= the draw; the last
\* index when there is none.
PrefixSum(w, i) == SumSeq(SubSeq(w, 1, i))
SpecifiedIndex(w, d) ==
    LET total == SumSeq(w)
        hits == { i \in 1..Len(w) : 100 * PrefixSum(w, i) >= d * total }
    IN IF hits = {} THEN Len(w)
       ELSE CHOOSE i \in hits : \A j \in hits : i <= j

WellFormedPercentage(router) ==
    /\ router.strategy.type = "percentage"
    /\ router.targets # <<>>
    /\ Len(router.strategy.targets_percentages) = Len(router.targets)
    /\ SumSeq(router.strategy.targets_percentages) > 0

PctRouter == router_map[PCT]
ResolvedPct == Resolved /\ ReqModel = RouterPrefix \o PCT

\* C9: a percentage router with as many weights as targets and a positive
\* weight sum returns, for the draw d, the target at the smallest index whose
\* normalized cumulative weight is >= d, the last target when no index
\* qualifies; the result is one of the router's targets.
C9_PercentageWalk ==
    (ResolvedPct /\ WellFormedPercentage(PctRouter)) =>
        /\ Res.outcome = "returned"
        /\ lastDraw # None
        /\ Res.value = PctRouter.targets[
               SpecifiedIndex(PctRouter.strategy.targets_percentages, The(lastDraw))]
        /\ Res.value \in Elems(PctRouter.targets)

\* a draw exactly on a cumulative weight that is not the whole range
C9_Witness ==
    /\ ResolvedPct
    /\ PctRouter.strategy.targets_percentages = <<1, 2>>
    /\ lastDraw = Some(34)
    /\ Res.outcome = "returned"
    /\ Res.value = TB

C9_WitnessBoundary ==
    /\ ResolvedPct
    /\ PctRouter.strategy.targets_percentages = <<50, 25, 25>>
    /\ lastDraw = Some(75)
    /\ Res.value = TB

FbRouter == router_map[FB]
ResolvedFb == Resolved /\ ReqModel = RouterPrefix \o FB

\* C10: a fallback router with targets returns targets[0] whatever the
\* request carries and however often resolve ran before, and no call of
\* resolve changes the router map.
C10_FallbackFirst ==
    /\ [](ResolvedFb /\ FbRouter.strategy.type = "fallback" /\ FbRouter.targets # <<>>
            => Res.outcome = "returned" /\ Res.value = FbRouter.targets[1])
    /\ [][(lastRes = None /\ lastRes' # None) => router_map' = router_map]_vars

\* a repeated call, on the longer message list, of a replaced fallback router
C10_Witness ==
    /\ ResolvedFb
    /\ routeCount >= 2
    /\ Len(The(lastReq).messages) = 2
    /\ FbRouter.targets = <<TA, TB, TC>>
    /\ Res.outcome = "returned"
    /\ Res.value = TA

\* C11: a percentage router whose weights and targets differ in number (its
\* targets not empty) makes resolve raise RouterError, with no target
\* returned and no random value drawn.
C11_MismatchRaisesBeforeDraw ==
    (ResolvedPct /\ PctRouter.strategy.type = "percentage" /\ PctRouter.targets # <<>>
       /\ Len(PctRouter.strategy.targets_percentages) # Len(PctRouter.targets)) =>
        /\ RaisedKind(Res, "RouterError")
        /\ Res.drew = "none"
        /\ lastDraw = None
        /\ lastPick = None

\* more targets than weights: a walk over the weights alone would have
\* returned a target
C11_Witness ==
    /\ ResolvedPct
    /\ PctRouter = Router(PCT, Percentage(<<70, 30>>), <<TA, TB, TC>>)
    /\ RaisedKind(Res, "RouterError")
    /\ lastDraw = None

C11_WitnessMoreWeights ==
    /\ ResolvedPct
    /\ PctRouter = Router(PCT, Percentage(<<50, 25, 25>>), <<TA, TB>>)
    /\ RaisedKind(Res, "RouterError")

\* the router a router reference names, when the router map holds it
RefRouter == router_map[RouterNameOf(ReqModel)]
ResolvedRef == Resolved /\ IsRouterRef(ReqModel) /\ RouterNameOf(ReqModel) \in DOMAIN router_map

\* C12: a router with no targets makes resolve raise RouterError under every
\* strategy; nothing is returned, neither a target nor a null nor an empty
\* value, and no random value is drawn.
C12_EmptyTargetsRaise ==
    (ResolvedRef /\ RefRouter.targets = <<>>) =>
        /\ Res.outcome # "returned"
        /\ RaisedKind(Res, "RouterError")
        /\ Res.drew = "none"

C12_Witness ==
    /\ ResolvedRef
    /\ RefRouter.targets = <<>>
    /\ RefRouter.strategy.type = "optimized"
    /\ RaisedKind(Res, "RouterError")

C12_WitnessPercentage ==
    /\ ResolvedRef
    /\ RefRouter.targets = <<>>
    /\ RefRouter.strategy.type = "percentage"
    /\ RaisedKind(Res, "RouterError")

C12_WitnessRandom ==
    /\ ResolvedRef
    /\ RefRouter.targets = <<>>
    /\ RefRouter.strategy.type = "random"
    /\ RaisedKind(Res, "RouterError")

C12_WitnessFallback ==
    /\ ResolvedRef
    /\ RefRouter.targets = <<>>
    /\ RefRouter.strategy.type = "fallback"
    /\ RaisedKind(Res, "RouterError")

\* C13: a random or optimized router with targets returns, on every call of
\* resolve, an element of its targets list: the one at the index the
\* generator's value selects, which lies inside the list.
C13_RandomInTargets ==
    (ResolvedRef /\ RefRouter.strategy.type \in {"random", "optimized"}
       /\ RefRouter.targets # <<>>) =>
        /\ Res.outcome = "returned"
        /\ Res.value \in Elems(RefRouter.targets)
        /\ lastPick # None
        /\ \E k \in 1..Len(RefRouter.targets) :
              /\ k = (The(lastPick) % Len(RefRouter.targets)) + 1
              /\ Res.value = RefRouter.targets[k]

\* the generator's largest value on a list that is shorter than it
C13_Witness ==
    /\ ResolvedRef
    /\ RefRouter.strategy.type = "optimized"
    /\ Len(RefRouter.targets) = 2
    /\ lastPick = Some(MaxPick)
    /\ Res.outcome = "returned"
    /\ Res.value = RefRouter.targets[(MaxPick % 2) + 1]

C13_WitnessRandom ==
    /\ ResolvedRef
    /\ RefRouter.strategy.type = "random"
    /\ lastPick = Some(2)
    /\ Res.value = TC

(***************************************************************************)
(* RequestContext and RequestExecutor (gateway/core/executor.py)           *)
(***************************************************************************)
\* RequestContext.__init__: no target yet
NewContext(request_id) ==
    [request_id |-> request_id, target_model |-> None, target_provider |-> None]

\* RequestContext.with_target
WithTarget(context, target) ==
    [context EXCEPT
        !.target_model = IF "model" \in DOMAIN target THEN Some(target.model) ELSE @,
        !.target_provider = IF "provider" \in DOMAIN target THEN Some(target.provider) ELSE @]

\* dict.get(key): None when the key is absent
DictGet(dict, key) == IF key \in DOMAIN dict THEN Some(dict[key]) ELSE None

\* Python's "x or default" for an optional provider name / model name
OrElseName(opt, default) == IF opt = None \/ The(opt) = "" THEN default ELSE The(opt)
OrElseModel(opt, default) == IF opt = None \/ The(opt) = <<>> THEN default ELSE The(opt)

\* UsageStorage.record_usage arguments the executor passes
UsageRecord(request_id, provider, model, input_tokens, output_tokens, total_tokens, success, error) ==
    [request_id |-> request_id, provider |-> provider, model |-> model,
     input_tokens |-> input_tokens, output_tokens |-> output_tokens,
     total_tokens |-> total_tokens, success |-> success, error |-> error]

\* InMemoryUsageStorage.record_usage
RecordUsage(recs, rec) == Append(recs, rec)

\* str(e) of a GatewayError
StrOf(e) == e.msg

FailureRecordUnattributed(c, e) ==
    UsageRecord(c.context.request_id, "unknown", c.request.model, 0, 0, 0,
                FALSE, Some(StrOf(e)))

FailureRecordTargetOnly(c, e) ==
    UsageRecord(c.context.request_id,
                OrElseName(c.context.target_provider, "unknown"),
                OrElseModel(c.context.target_model, <<"unknown">>),
                0, 0, 0, FALSE, Some(StrOf(e)))

\* The record the except branch of execute_* builds
FailureRecord(c, e) ==
    UsageRecord(c.context.request_id,
                OrElseName(c.context.target_provider, "unknown"),
                IF c.kind \in {"chat", "stream"}
                THEN OrElseModel(c.context.target_model, c.request.model)
                ELSE c.request.model,
                0, 0, 0, FALSE, Some(StrOf(e)))

\* The except branch of execute_*: track the failed usage when the executor
\* has a storage, then re-raise
RecordsAfterFailure(recs, c, e) ==
    IF c.storage THEN RecordUsage(recs, FailureRecord(c, e)) ELSE recs

ReraiseAsExecutionError(e) == Err("ExecutionError", e.msg)

\* the bare "raise" that ends the except branch
Reraise(e) == e

FailedCallRetry(c, e) ==
    IF c.state = "Executing" /\ Len(c.invoked) < 2
    THEN [c EXCEPT !.state = "ProviderResolved"]
    ELSE [c EXCEPT !.state = "Failed", !.cause = Some(e), !.result = Some(Raised(e))]

FailedCallRedeliver(c, e) ==
    [c EXCEPT !.state = "Failed", !.cause = Some(e), !.result = Some(Raised(e)),
              !.delivered = @ \o @]

\* the call c after the except branch ran for the exception e
FailedCall(c, e) ==
    [c EXCEPT !.state = "Failed", !.cause = Some(e), !.result = Some(Raised(Reraise(e)))]

\* model_copy(update=...) and the loop over the target's other keys
ModifiedRequest(request, target, model_name, stream) ==
    LET copy == [request EXCEPT !.model = model_name,
                                !.stream = IF stream THEN TRUE ELSE @]
        keys == (DOMAIN target \ {"model", "provider"}) \cap DOMAIN copy
    IN [f \in DOMAIN copy |->
          IF f \in keys
          THEN (IF f = "temperature" THEN Some(target[f]) ELSE target[f])
          ELSE copy[f]]

\* Usage
Usage(p, c, t) == [prompt_tokens |-> p, completion_tokens |-> c, total_tokens |-> t]
ZeroUsage == Usage(0, 0, 0)
SomeUsage == Usage(2, 3, 5)

\* len(text.split()) // 3
WordTokens(words) == Len(words) \div 3

RECURSIVE SumWords(_)
SumWords(messages) ==
    IF messages = <<>> THEN 0 ELSE Len(messages[1]) + SumWords(Tail(messages))

\* the streaming input estimate over request.messages
InputEstimate(messages) == SumWords(messages) \div 3

\* What an adapter may do
ChatResponses == { [usage |-> None], [usage |-> Some(SomeUsage)] }
EmbeddingResponses == { [usage |-> Some(SomeUsage)] }
ImageResponses == { [data |-> <<"img">>] }
AdapterErrors ==
    { Err("ProviderError", <<"upstream failed">>),
      Err("RateLimitExceededError", <<"rate limit exceeded">>) }
ChunkPool ==
    { [content |-> <<"one", "two", "three">>, usage |-> None],
      [content |-> <<>>, usage |-> Some(SomeUsage)] }

\* the success branch: is a record written, and which
SuccessRecords(recs, c, response) ==
    IF c.kind = "chat"
    THEN IF c.storage /\ response.usage # None
         THEN RecordUsage(recs,
                UsageRecord(c.context.request_id, The(c.provider_name), The(c.model_name),
                            The(response.usage).prompt_tokens,
                            The(response.usage).completion_tokens,
                            The(response.usage).total_tokens, TRUE, None))
         ELSE recs
    ELSE IF c.kind = "embed"
    THEN IF c.storage /\ response.usage # None
         THEN RecordUsage(recs,
                UsageRecord(c.context.request_id, The(c.provider_name), c.request.model,
                            The(response.usage).prompt_tokens, 0,
                            The(response.usage).total_tokens, TRUE, None))
         ELSE recs
    ELSE IF c.kind = "image"
    THEN IF c.storage
         THEN RecordUsage(recs,
                UsageRecord(c.context.request_id, The(c.provider_name), c.request.model,
                            WordTokens(c.request.messages[1]), 0,
                            WordTokens(c.request.messages[1]), TRUE, None))
         ELSE recs
    ELSE IF c.storage
         THEN RecordUsage(recs,
                UsageRecord(c.context.request_id, The(c.provider_name), The(c.model_name),
                            InputEstimate(c.request.messages), c.output_tokens,
                            InputEstimate(c.request.messages) + c.output_tokens,
                            TRUE, None))
         ELSE recs

\* the GatewayResponse a non-streaming call returns
GatewayResponse(c, response) ==
    [response |-> response,
     usage |-> IF c.kind = "image"
               THEN Usage(WordTokens(c.request.messages[1]), 0,
                          WordTokens(c.request.messages[1]))
               ELSE IF response.usage # None THEN The(response.usage) ELSE ZeroUsage]

(***************************************************************************)
(* streaming_chat_completion (gateway/api/v1/chat.py)                      *)
(***************************************************************************)
\* the subclasses of GatewayError
GatewayErrorKinds ==
    { "GatewayError", "ConfigurationError", "ProviderError", "ModelNotFoundError",
      "ProviderNotFoundError", "RouterError", "ExecutionError", "AuthenticationError",
      "AuthorizationError", "RateLimitExceededError", "QuotaExceededError",
      "ValidationError", "GuardrailError", "UsageTrackingError" }

\* isinstance(e, GatewayError)
IsGatewayError(e) == e.kind \in GatewayErrorKinds

\* the server-sent events the generator yields
SseData(chunk) == [event |-> "data", code |-> 0, body |-> chunk.content]
SseError(code, message) == [event |-> "error", code |-> code, body |-> message]
SseDone == [event |-> "done", code |-> 0, body |-> <<>>]

\* json.dumps(chunk.model_dump()) on a chunk whose delta or logprobs, typed
\* Any, hold a value json cannot encode
DumpsError == Err("TypeError", <<"Object is not JSON serializable">>)

ErrorEventsNoMarker(e) ==
    IF IsGatewayError(e) THEN << SseError(400, StrOf(e)) >>
    ELSE << SseError(500, <<"Internal server error", StrOf(e)>>) >>

\* the two except branches: one error event, then the end-of-stream marker
ErrorEvents(e) ==
    IF IsGatewayError(e)
    THEN << SseError(400, StrOf(e)), SseDone >>
    ELSE << SseError(500, <<"Internal server error", StrOf(e)>>), SseDone >>

\* the call c after the generator yielded evs; finished tells that the
\* generator then returned
Emitted(c, evs, finished) ==
    IF c.sse # "open" THEN c
    ELSE [c EXCEPT !.events = @ \o evs,
                   !.sse = IF finished THEN "closed" ELSE @]

\* the executor's stream raised e into the generator
StreamRaised(c, e) == Emitted(c, ErrorEvents(e), TRUE)

\* the executor's stream ended: the marker alone
StreamCompleted(c) == Emitted(c, << SseDone >>, TRUE)

\* the executor's stream yielded chunk: it is serialised and sent, or
\* json.dumps raises and the generator ends through its last except branch,
\* leaving the executor's stream where it stood
ChunkSent(c, chunk, dumped) ==
    IF dumped THEN Emitted(c, << SseData(chunk) >>, FALSE)
    ELSE Emitted(c, ErrorEvents(DumpsError), TRUE)

(***************************************************************************)
(* The execute_* calls, one at a time                                      *)
(***************************************************************************)
NP == <<"np">>

\* The routers the executor's routing engine is constructed with
ExecRouterMap ==
    (FB :> Router(FB, Strategy("fallback"), <<TB, TA>>)) @@
    (NP :> Router(NP, Strategy("fallback"), << [model |-> <<"gpt-up">>] >>)) @@
    (<<"efb">> :> Router(<<"efb">>, Strategy("fallback"), <<>>)) @@
    (<<"tuned">> :> Router(<<"tuned">>, Strategy("fallback"), <<TD>>)) @@
    (RND :> Router(RND, Strategy("random"), <<TA, TC>>))

\* RoutingEngine() as RequestExecutor() builds it: no routers
EmptyRouterMap == [x \in {} |-> Router(<<>>, Strategy("fallback"), <<>>)]

ChatIds ==
    { <<"gpt">>, <<"gem">>, <<"nomodel">>, <<"router", "/", "fb">>,
      <<"router", "/", "np">>, <<"router", "/", "rnd">>, <<"router", "/", "missing">>,
      <<"router", "/", "efb">>, <<"router", "/", "tuned">> }
DirectIds == { <<"gpt">>, <<"claude">>, <<"gem">>, <<"nomodel">> }

ExecMessages == << <<"count", "to", "three">>, <<"please">> >>

Kinds == {"chat", "stream", "embed", "image"}
ChatKinds == {"chat", "stream"}

\* the draw handed to the routing engine: no percentage router is configured
\* for these runs, so none is consumed
ExecDraws == {0}

\* The call as execute_* starts it: context built, nothing resolved.
\* storage tells whether the executor was given a usage storage; http, whether
\* the call comes from an endpoint, which builds RequestExecutor() itself.
\* For a streaming call of the endpoint: events is what streaming_chat_completion
\* has yielded, sse its generator ("open", "closed" once it returned, "aborted"
\* once the client was gone; "none" for every other call).
\* For a stream: produced is what the adapter's stream has yielded, pulled the
\* number of times the executor's loop asked the adapter's stream for its next
\* chunk, handle the upstream stream the adapter opened ("none" before it
\* did, then "open", "released" once the upstream library closed it).
StartedCall(id, kind, request, storage, http) ==
    [id |-> id, kind |-> kind, request |-> request, storage |-> storage, http |-> http,
     state |-> "Created", context |-> NewContext(id), target |-> None,
     provider_name |-> None, model_name |-> None, routed |-> 0, invoked |-> <<>>,
     delivered |-> <<>>, output_tokens |-> 0, cause |-> None, result |-> None,
     produced |-> <<>>, pulled |-> 0, handle |-> "none",
     events |-> <<>>, sse |-> IF http /\ kind = "stream" THEN "open" ELSE "none"]

\* RequestExecutor.__init__ as the endpoints call it: RequestExecutor()
EndpointExecutorStorage == FALSE

Ended(c) == c.state \in {"Completed", "Failed"}
Cur == The(call)
Running == call # None /\ ~Ended(Cur)

\* the router map of the routing engine the call's executor holds
EngineMap(c) == IF c.http THEN EmptyRouterMap ELSE router_map

InitExec ==
    /\ router_map = ExecRouterMap
    /\ InitRegistry
    /\ providers \in {NoProviders, StartupProviders}
    /\ RegistryIdle
    /\ records = <<>>
    /\ call = None
    /\ ncalls = 0
    /\ lastReq = None
    /\ lastDraw = None
    /\ lastPick = None
    /\ lastRes = None
    /\ routeCount = 0

HarnessUnchanged ==
    UNCHANGED <<lastReq, lastDraw, lastPick, lastRes, routeCount,
                provider_classes, gp, built, running,
                adapter, reload, limiter>>

\* execute_* is called: directly on an executor with or without a usage
\* storage, or by an endpoint
NewCall ==
    /\ IF call = None THEN TRUE ELSE Ended(Cur)
    /\ ncalls < MaxCalls
    /\ \E kind \in Kinds, http \in BOOLEAN, st \in BOOLEAN :
         \E id \in (IF kind \in ChatKinds THEN ChatIds ELSE DirectIds) :
            /\ http => st = EndpointExecutorStorage
            /\ call' = Some(StartedCall(ncalls + 1, kind,
                              ChatRequest(id, ExecMessages, None, kind = "stream"),
                              st, http))
    /\ ncalls' = ncalls + 1
    /\ UNCHANGED <<router_map, models, loaded, models_file, providers, records>>
    /\ HarnessUnchanged

\* chat and streaming chat: route_chat_request and context.with_target
Route ==
    /\ Running
    /\ Cur.kind \in ChatKinds
    /\ Cur.state = "Created"
    /\ \E rand \in ExecDraws, pick \in Picks :
         LET c == [Cur EXCEPT !.routed = @ + 1]
             reg == RegistryAfterRoute(models, loaded, models_file, c.request)
             res == RouteChatRequest(EngineMap(c), reg.models, c.request, rand, pick)
         IN /\ models' = reg.models
            /\ loaded' = reg.loaded
            /\ IF res.outcome = "raised"
               THEN /\ records' = RecordsAfterFailure(records, c, res.err)
                    /\ call' = Some(StreamRaised(FailedCall(c, res.err), res.err))
               ELSE /\ records' = records
                    /\ call' = Some([c EXCEPT !.state = "Routed",
                                              !.target = Some(res.value),
                                              !.context = WithTarget(@, res.value)])
    /\ UNCHANGED <<router_map, models_file, providers, ncalls>>
    /\ HarnessUnchanged

\* chat and streaming chat: target.get("provider") and get_provider
ResolveProvider ==
    /\ Running
    /\ Cur.state = "Routed"
    /\ LET c == Cur
           target == The(c.target)
           provider_name == DictGet(target, "provider")
       IN IF provider_name = None \/ The(provider_name) = ""
          THEN LET e == Err("ProviderNotFoundError",
                            <<"No provider specified for model", DictGet(target, "model")>>)
               IN /\ records' = RecordsAfterFailure(records, c, e)
                  /\ call' = Some(StreamRaised(FailedCall(c, e), e))
                  /\ providers' = providers
          ELSE LET got == GetProvider(providers, provider_classes, The(provider_name))
                   c1 == [c EXCEPT !.provider_name = provider_name]
               IN /\ providers' = got.providers
                  /\ IF got.provider = None
                     THEN LET e == Err("ProviderNotFoundError",
                                       <<"Provider not found", provider_name>>)
                          IN /\ records' = RecordsAfterFailure(records, c1, e)
                             /\ call' = Some(StreamRaised(FailedCall(c1, e), e))
                     ELSE /\ records' = records
                          /\ call' = Some([c1 EXCEPT !.state = "ProviderResolved"])
    /\ UNCHANGED <<router_map, models, loaded, models_file, ncalls>>
    /\ HarnessUnchanged

\* embeddings and image generation: get_model, then get_provider
ResolveDirect ==
    /\ Running
    /\ Cur.kind \notin ChatKinds
    /\ Cur.state = "Created"
    /\ LET c == Cur
           reg == LoadModels(models, loaded, models_file)
           model_def == GetModel(reg.models, c.request.model)
       IN /\ models' = reg.models
          /\ loaded' = reg.loaded
          /\ IF model_def = None
             THEN LET e == Err("ModelNotFoundError", <<"Model not found", c.request.model>>)
                  IN /\ records' = RecordsAfterFailure(records, c, e)
                     /\ call' = Some(FailedCall(c, e))
                     /\ providers' = providers
             ELSE LET provider_name == The(model_def).provider
                      got == GetProvider(providers, provider_classes, provider_name)
                      c1 == [c EXCEPT !.provider_name = Some(provider_name)]
                  IN /\ providers' = got.providers
                     /\ IF got.provider = None
                        THEN LET e == Err("ProviderNotFoundError",
                                          <<"Provider not found", Some(provider_name)>>)
                             IN /\ records' = RecordsAfterFailure(records, c1, e)
                                /\ call' = Some(FailedCall(c1, e))
                        ELSE /\ records' = records
                             /\ call' = Some([c1 EXCEPT !.state = "ProviderResolved"])
    /\ UNCHANGED <<router_map, models_file, ncalls>>
    /\ HarnessUnchanged

\* the operation of the adapter a call of this kind invokes
AdapterOp(kind) ==
    IF kind = "chat" THEN "create_chat_completion"
    ELSE IF kind = "stream" THEN "create_streaming_chat_completion"
    ELSE IF kind = "embed" THEN "create_embeddings"
    ELSE "create_image"

\* target.get("model", request.model) for chat; embeddings and images keep
\* no upstream model name
ModelNameFor(c) ==
    IF c.kind \in ChatKinds
    THEN Some(IF "model" \in DOMAIN The(c.target) THEN The(c.target).model
              ELSE c.request.model)
    ELSE None

BuiltRequestsInPlace(request, target, model_name, stream) ==
    [caller |-> ModifiedRequest(request, target, model_name, stream),
     handed |-> ModifiedRequest(request, target, model_name, stream)]

\* the two request objects once the request for the adapter is built:
\* model_copy makes a new object and setattr works on that one, so the
\* caller's object stays as it was
BuiltRequests(request, target, model_name, stream) ==
    [caller |-> request,
     handed |-> ModifiedRequest(request, target, model_name, stream)]

\* the caller's request object after the call built the adapter's request
CallerRequest(c) ==
    IF c.kind \in ChatKinds
    THEN BuiltRequests(c.request, The(c.target), The(ModelNameFor(c)),
                       c.kind = "stream").caller
    ELSE c.request

\* the adapter operation the call invokes, and the request it hands over
AdapterCall(c) ==
    [op |-> AdapterOp(c.kind), provider |-> The(c.provider_name),
     request |-> IF c.kind \in ChatKinds
                 THEN BuiltRequests(c.request, The(c.target), The(ModelNameFor(c)),
                                    c.kind = "stream").handed
                 ELSE c.request]

InvokedCallEveryTarget(c) ==
    [c EXCEPT !.state = "Executing",
              !.model_name = ModelNameFor(c),
              !.invoked = @ \o <<AdapterCall(c), AdapterCall(c)>>]

\* the call c with the adapter operation invoked on the request it builds
InvokedCall(c) ==
    [c EXCEPT !.state = "Executing",
              !.model_name = ModelNameFor(c),
              !.request = CallerRequest(c),
              !.invoked = Append(@, AdapterCall(c))]

\* the request is built and the adapter operation is called
Invoke ==
    /\ Running
    /\ Cur.state = "ProviderResolved"
    /\ call' = Some(InvokedCall(Cur))
    /\ UNCHANGED <<router_map, models, loaded, models_file, providers, records, ncalls>>
    /\ HarnessUnchanged

\* the call c after the adapter returned response: usage tracked, response returned
CompletedCall(c, response) ==
    [c EXCEPT !.state = "Completed",
              !.result = Some(Returned(GatewayResponse(c, response)))]

\* Where an exception of the adapter arises: in the upstream call or read, or
\* in the adapter's own translation of a chunk it has read
ErrorOrigins == {"upstream", "adapter"}

\* the call c when its adapter raises. For a stream the loop had asked for
\* the next chunk; a failed upstream read ends the upstream stream, while an
\* exception of the translation leaves it as the adapter holds it: the
\* adapter closes nothing on its way out.
RaisedIn(c, origin) ==
    IF c.kind # "stream" THEN c
    ELSE [c EXCEPT !.pulled = @ + 1,
                   !.handle = IF origin = "upstream"
                              THEN (IF @ = "open" THEN "released" ELSE @)
                              ELSE "open"]

\* a non-streaming adapter operation returns
AdapterReturn ==
    /\ Running
    /\ Cur.state = "Executing"
    /\ Cur.kind # "stream"
    /\ \E response \in (IF Cur.kind = "chat" THEN ChatResponses
                        ELSE IF Cur.kind = "embed" THEN EmbeddingResponses
                        ELSE ImageResponses) :
         /\ records' = SuccessRecords(records, Cur, response)
         /\ call' = Some(CompletedCall(Cur, response))
    /\ UNCHANGED <<router_map, models, loaded, models_file, providers, ncalls>>
    /\ HarnessUnchanged

\* the adapter operation, or the upstream stream, raises
AdapterRaise ==
    /\ Running
    /\ Cur.state = "Executing"
    /\ Cur.sse # "closed"
    /\ \E e \in AdapterErrors, origin \in ErrorOrigins :
         /\ records' = RecordsAfterFailure(records, RaisedIn(Cur, origin), e)
         /\ call' = Some(StreamRaised(FailedCall(RaisedIn(Cur, origin), e), e))
    /\ UNCHANGED <<router_map, models, loaded, models_file, providers, ncalls>>
    /\ HarnessUnchanged

ChunkDeliveredUnlessEmpty(c, chunk) ==
    [c EXCEPT !.pulled = @ + 1,
              !.handle = "open",
              !.produced = Append(@, chunk),
              !.delivered = IF chunk.content # <<>> THEN Append(@, chunk) ELSE @,
              !.output_tokens = IF chunk.content # <<>>
                                THEN @ + WordTokens(chunk.content) ELSE @]

\* the call c after the loop asked the adapter's stream for its next chunk,
\* the stream yielded chunk, and the chunk went to the caller and was counted
ChunkDelivered(c, chunk) ==
    [c EXCEPT !.pulled = @ + 1,
              !.handle = "open",
              !.produced = Append(@, chunk),
              !.delivered = Append(@, chunk),
              !.output_tokens = IF chunk.content # <<>>
                                THEN @ + WordTokens(chunk.content) ELSE @]

\* the upstream stream produces a chunk: it is yielded, then counted
StreamChunk ==
    /\ Running
    /\ Cur.state = "Executing"
    /\ Cur.kind = "stream"
    /\ Cur.sse # "closed"
    /\ Len(Cur.delivered) < MaxChunks
    /\ \E chunk \in ChunkPool, dumped \in BOOLEAN :
         call' = Some(ChunkSent(ChunkDelivered(Cur, chunk), chunk, dumped))
    /\ UNCHANGED <<router_map, models, loaded, models_file, providers, records, ncalls>>
    /\ HarnessUnchanged

\* the upstream stream ends: usage tracked, the generator finishes
StreamEnd ==
    /\ Running
    /\ Cur.state = "Executing"
    /\ Cur.kind = "stream"
    /\ Cur.sse # "closed"
    /\ records' = SuccessRecords(records, Cur, [usage |-> None])
    /\ call' = Some(StreamCompleted(
                  [Cur EXCEPT !.state = "Completed",
                              !.pulled = @ + 1,
                              !.handle = "released",
                              !.result = Some(Returned([response |-> "StopAsyncIteration",
                                                        usage |-> ZeroUsage]))]))
    /\ UNCHANGED <<router_map, models, loaded, models_file, providers, ncalls>>
    /\ HarnessUnchanged

\* the call c after its caller closed the stream: GeneratorExit at the yield
\* (CancelledError at the await before the first chunk) is no Exception, so
\* the except branch does not run and nothing is raised to the caller
AbandonedCall(c) ==
    [c EXCEPT !.state = "Failed",
              !.cause = Some(Err(IF c.delivered = <<>> THEN "CancelledError"
                                 ELSE "GeneratorExit", <<>>)),
              !.result = Some([outcome |-> "closed", drew |-> "none"]),
              !.sse = IF @ = "open" THEN "aborted" ELSE @]

\* the caller abandons the stream: the client disconnects, or the endpoint's
\* generator has ended on its own error and the stream it left is finalised
Abandon ==
    /\ Running
    /\ Cur.state = "Executing"
    /\ Cur.kind = "stream"
    /\ call' = Some(AbandonedCall(Cur))
    /\ UNCHANGED <<router_map, models, loaded, models_file, providers, records, ncalls>>
    /\ HarnessUnchanged

NextExec ==
    \/ NewCall
    \/ Route
    \/ ResolveProvider
    \/ ResolveDirect
    \/ Invoke
    \/ AdapterReturn
    \/ AdapterRaise
    \/ StreamChunk
    \/ StreamEnd
    \/ Abandon

Spec == InitExec /\ [][NextExec]_vars

(***************************************************************************)
(* Claims about the executor                                               *)
(***************************************************************************)
\* the usage records written for the request id
RecordsOf(id) == { k \in 1..Len(records) : records[k].request_id = id }
FailureRecordsOf(id) == { k \in RecordsOf(id) : ~records[k].success }
SuccessRecordsOf(id) == { k \in RecordsOf(id) : records[k].success }

\* the call ended because its caller closed the stream
Abandoned(c) == c.state = "Failed" /\ The(c.result).outcome = "closed"

\* the call's adapter was invoked and then failed
AdapterFailed(c) == c.state = "Failed" /\ c.invoked # <<>> /\ The(c.cause) \in AdapterErrors

\* C1: when a chat or streaming chat call on an executor with a usage
\* storage was routed, its provider resolved, and the adapter then failed
\* (for a stream: before or after any chunks), exactly one usage record is
\* written for the call: success=false, all token counts 0, the error string
\* of the failure, provider and model of the target routing resolved; and no
\* success=true record.
C1_AdapterFailureRecorded ==
    (call # None /\ Cur.kind \in ChatKinds /\ Cur.storage /\ AdapterFailed(Cur)) =>
        /\ Cardinality(RecordsOf(Cur.id)) = 1
        /\ SuccessRecordsOf(Cur.id) = {}
        /\ \A k \in RecordsOf(Cur.id) :
              /\ records[k].success = FALSE
              /\ records[k].input_tokens = 0
              /\ records[k].output_tokens = 0
              /\ records[k].total_tokens = 0
              /\ records[k].error = Some(The(Cur.cause).msg)
              /\ records[k].provider = The(Cur.target).provider
              /\ records[k].model = The(Cur.target).model

\* a stream that failed after a chunk had been delivered
C1_Witness ==
    /\ call # None
    /\ Cur.kind = "stream"
    /\ Cur.storage
    /\ AdapterFailed(Cur)
    /\ Len(Cur.delivered) >= 1
    /\ Cur.output_tokens > 0
    /\ Cardinality(FailureRecordsOf(Cur.id)) = 1

C1_WitnessChat ==
    /\ call # None
    /\ Cur.kind = "chat"
    /\ Cur.storage
    /\ AdapterFailed(Cur)
    /\ Cur.request.model = <<"router", "/", "fb">>
    /\ \E k \in FailureRecordsOf(Cur.id) : records[k].provider = "anthropic"

\* C2: a failed execute_* call raises the very error that routing, provider
\* resolution or the adapter raised, and by then the failed attempt has been
\* handed to the usage storage.
C2_ReraisedAfterRecording ==
    (call # None /\ Cur.state = "Failed" /\ ~Abandoned(Cur)) =>
        /\ Cur.result = Some(Raised(The(Cur.cause)))
        /\ \E k \in FailureRecordsOf(Cur.id) :
              records[k].error = Some(The(Cur.cause).msg)

\* The part of C2 the code keeps: the error reaches the caller unchanged, and
\* a response is returned only by a call that did not fail.
C2_ReraisedUnchanged ==
    call # None =>
        /\ (Cur.state = "Failed" /\ ~Abandoned(Cur)) =>
              /\ Cur.result = Some(Raised(The(Cur.cause)))
              /\ Cur.storage => FailureRecordsOf(Cur.id) # {}
        /\ Cur.state = "Completed" => Cur.cause = None /\ The(Cur.result).outcome = "returned"

\* C3: on an executor with a usage storage, every ended call has written
\* exactly one usage record: success=true if it returned, success=false if it
\* raised.
C3_OneRecordPerCall ==
    (call # None /\ Cur.storage /\ Ended(Cur) /\ ~Abandoned(Cur)) =>
        /\ Cardinality(RecordsOf(Cur.id)) = 1
        /\ \A k \in RecordsOf(Cur.id) : records[k].success = (Cur.state = "Completed")

\* C4: a chat, streaming chat or embeddings request that an endpoint handles
\* and that fails inside the executor leaves a success=false usage record.
C4_EndpointFailureRecorded ==
    (call # None /\ Cur.http /\ Cur.kind \in {"chat", "stream", "embed"}
       /\ Cur.state = "Failed" /\ ~Abandoned(Cur)) =>
        FailureRecordsOf(Cur.id) # {}

Forward ==
    { <<"Created", "Routed">>, <<"Routed", "ProviderResolved">>,
      <<"ProviderResolved", "Executing">>, <<"Executing", "Completed">> }
ToFailed == { <<st, "Failed">> : st \in {"Created", "Routed", "ProviderResolved", "Executing"} }

\* what routing and provider resolution must have left before the adapter runs
ReadyForAdapter(c, ps) ==
    /\ c.routed = 1
    /\ c.target # None
    /\ c.context.target_provider = Some(The(c.target).provider)
    /\ c.provider_name = Some(The(c.target).provider)
    /\ The(c.provider_name) \in DOMAIN ps

C6_StateInvariant ==
    (call # None /\ Cur.kind \in ChatKinds) =>
        /\ Cur.state \in {"Created", "Routed", "ProviderResolved", "Executing",
                          "Completed", "Failed"}
        /\ Cur.state = "Created" => Cur.routed = 0 /\ Cur.target = None
        /\ Cur.state = "Routed" => Cur.routed = 1 /\ Cur.target # None /\ Cur.provider_name = None
        /\ Cur.state \in {"Created", "Routed", "ProviderResolved"} => Cur.invoked = <<>>
        /\ Cur.state \in {"ProviderResolved", "Executing", "Completed"} =>
              ReadyForAdapter(Cur, providers)
        /\ Cur.invoked # <<>> => ReadyForAdapter(Cur, providers)
        /\ Cur.state = "Completed" <=>
              (Cur.result # None /\ The(Cur.result).outcome = "returned")
        /\ Cur.state = "Failed" <=>
              (Cur.result # None /\ The(Cur.result).outcome \in {"raised", "closed"})
        /\ (Cur.result # None /\ The(Cur.result).outcome = "closed") =>
              Cur.kind = "stream" /\ Cur.invoked # <<>>
        /\ Cur.delivered # <<>> => Cur.kind = "stream" /\ Cur.invoked # <<>>

C6_Step ==
    (call # None /\ call' # call) =>
        IF The(call').id # Cur.id
        THEN Ended(Cur) /\ The(call').state = "Created"
        ELSE Cur.kind \in ChatKinds =>
               /\ ~Ended(Cur)
               /\ \/ <<Cur.state, The(call').state>> \in Forward \cup ToFailed
                  \/ /\ Cur.kind = "stream"
                     /\ Cur.state = "Executing"
                     /\ The(call').state = "Executing"
                     /\ Len(The(call').delivered) = Len(Cur.delivered) + 1
               /\ The(call').invoked # Cur.invoked =>
                     Cur.state = "ProviderResolved" /\ The(call').state = "Executing"

\* nothing is recorded for a call that has ended
C6_Quiet ==
    (call # None /\ Ended(Cur) /\ call' # None /\ The(call').id = Cur.id) =>
        /\ call' = call
        /\ Len(records') = Len(records)

\* C6: a chat call moves through Created, Routed, ProviderResolved,
\* Executing in that order and ends in exactly one of Completed or Failed;
\* the adapter is invoked only once routing and provider resolution have both
\* succeeded, a failure leads from any state directly to Failed, and no step
\* of the call follows Completed or Failed.
C6_CallLifecycle ==
    /\ []C6_StateInvariant
    /\ [][C6_Step /\ C6_Quiet]_vars

\* a streaming call that went all the way and completed after its chunks
C6_Witness ==
    /\ call # None
    /\ Cur.kind = "stream"
    /\ Cur.state = "Completed"
    /\ Len(Cur.delivered) = MaxChunks
    /\ Cur.routed = 1
    /\ Len(Cur.invoked) = 1

\* a chat call that failed in provider resolution, before any adapter call
C6_WitnessFailedEarly ==
    /\ call # None
    /\ Cur.kind = "chat"
    /\ Cur.state = "Failed"
    /\ Cur.target # None
    /\ Cur.invoked = <<>>
    /\ The(Cur.cause).kind = "ProviderNotFoundError"

(***************************************************************************)
(* Claims about streaming                                                  *)
(***************************************************************************)
IsStream == call # None /\ Cur.kind = "stream"
SameCall == call # None /\ call' # None /\ The(call').id = Cur.id
IsPrefix(a, b) == Len(a) <= Len(b) /\ SubSeq(b, 1, Len(a)) = a

C14_Delivered ==
    IsStream =>
        /\ Cur.delivered = Cur.produced
        /\ Cur.pulled >= Len(Cur.delivered)
        /\ Cur.pulled <= Len(Cur.delivered) + 1

\* the loop asks for one chunk at a time, and only when every chunk it asked
\* for before has gone to the caller
C14_Pull ==
    (SameCall /\ Cur.kind = "stream" /\ The(call').pulled # Cur.pulled) =>
        /\ The(call').pulled = Cur.pulled + 1
        /\ Len(Cur.delivered) = Cur.pulled
        /\ Len(The(call').produced) <= Len(Cur.produced) + 1

\* C14: the chunks a streaming call delivers are exactly the chunks the
\* adapter's stream produced, in that order, none dropped, duplicated or
\* reordered, and chunk k has been delivered when chunk k+1 is requested.
C14_ChunksInOrder ==
    /\ []C14_Delivered
    /\ [][C14_Pull]_vars

\* a completed stream of two different chunks
C14_Witness ==
    /\ IsStream
    /\ Cur.state = "Completed"
    /\ Len(Cur.delivered) = 2
    /\ Cur.delivered[1] # Cur.delivered[2]
    /\ Cur.delivered[1].content = <<>>
    /\ Cur.pulled = 3

C15_Ended ==
    IsStream =>
        /\ Len(Cur.invoked) <= 1
        /\ Ended(Cur) <=> Cur.result # None
        /\ (Cur.state = "Failed" /\ ~Abandoned(Cur)) =>
              /\ Cur.cause # None
              /\ Cur.result = Some(Raised(The(Cur.cause)))

C15_StreamStep ==
    (SameCall /\ Cur.kind = "stream") =>
        /\ Ended(Cur) => call' = call
        /\ IsPrefix(Cur.delivered, The(call').delivered)
        /\ Len(The(call').delivered) <= Len(Cur.delivered) + 1
        /\ Ended(The(call')) =>
              /\ The(call').delivered = Cur.delivered
              /\ The(call').produced = Cur.produced
              /\ The(call').invoked = Cur.invoked

\* C15: a stream ends once, by completion or by one error: an ended stream
\* takes no further step, so no chunk follows its end, and the step that ends
\* it (an upstream error included) delivers nothing again and asks the
\* adapter for no new stream.
C15_EndsOnce ==
    /\ []C15_Ended
    /\ [][C15_StreamStep]_vars

\* an upstream error after a delivered chunk
C15_Witness ==
    /\ IsStream
    /\ AdapterFailed(Cur)
    /\ Len(Cur.delivered) >= 1
    /\ Cur.pulled = Len(Cur.delivered) + 1
    /\ Len(Cur.invoked) = 1

\* C16: a streaming call its caller abandons while it is executing ends in
\* Failed with one success=false usage record attributed to the resolved
\* target, and no success=true record (on an executor with a usage storage).
C16_AbandonRecorded ==
    (IsStream /\ Cur.storage /\ Abandoned(Cur)) =>
        /\ Cur.state = "Failed"
        /\ SuccessRecordsOf(Cur.id) = {}
        /\ Cardinality(FailureRecordsOf(Cur.id)) = 1
        /\ \A k \in FailureRecordsOf(Cur.id) :
              /\ records[k].provider = The(Cur.target).provider
              /\ records[k].model = The(Cur.target).model

\* The part of C16 the code keeps: an abandoned stream leaves no success=true
\* record.
C16_AbandonNoSuccess ==
    (IsStream /\ Abandoned(Cur)) => RecordsOf(Cur.id) = {}

\* C17: when a streaming call has ended, by completion, by an error or by
\* its caller abandoning it, the upstream stream it opened has been released.
C17_HandleReleased ==
    (IsStream /\ Ended(Cur)) => Cur.handle # "open"

\* The part of C17 the code keeps: nothing is pulled from the upstream once
\* the caller has abandoned the stream.
C17_NoPullAfterAbandon ==
    [][(SameCall /\ Cur.kind = "stream" /\ Abandoned(Cur)) =>
          The(call').pulled = Cur.pulled /\ The(call').produced = Cur.produced]_vars

\* the exact counts the stream carried: the usage of its last chunk that has one
RECURSIVE StreamUsage(_)
StreamUsage(chunks) ==
    IF chunks = <<>> THEN None
    ELSE IF chunks[Len(chunks)].usage # None THEN chunks[Len(chunks)].usage
    ELSE StreamUsage(SubSeq(chunks, 1, Len(chunks) - 1))

\* C18: the success record of a completed stream carries the exact token
\* counts a chunk of the stream supplied, and the word-count estimate only
\* when no chunk carried usage.
C18_ExactStreamUsage ==
    (IsStream /\ Cur.storage /\ Cur.state = "Completed") =>
        /\ Cardinality(SuccessRecordsOf(Cur.id)) = 1
        /\ \A k \in SuccessRecordsOf(Cur.id) :
              IF StreamUsage(Cur.delivered) # None
              THEN /\ records[k].input_tokens = The(StreamUsage(Cur.delivered)).prompt_tokens
                   /\ records[k].output_tokens = The(StreamUsage(Cur.delivered)).completion_tokens
                   /\ records[k].total_tokens = The(StreamUsage(Cur.delivered)).total_tokens
              ELSE /\ records[k].input_tokens = InputEstimate(Cur.request.messages)
                   /\ records[k].output_tokens = Cur.output_tokens
                   /\ records[k].total_tokens =
                         InputEstimate(Cur.request.messages) + Cur.output_tokens

\* The part of C18 the code keeps: the estimate, whatever the chunks carried
C18_EstimateAlways ==
    (IsStream /\ Cur.storage /\ Cur.state = "Completed") =>
        /\ Cardinality(SuccessRecordsOf(Cur.id)) = 1
        /\ \A k \in SuccessRecordsOf(Cur.id) :
              /\ records[k].input_tokens = InputEstimate(Cur.request.messages)
              /\ records[k].output_tokens = Cur.output_tokens
              /\ records[k].total_tokens = InputEstimate(Cur.request.messages) + Cur.output_tokens

\* the provider modules whose file the package holds
PackageModules == {"openai", "anthropic", "azure"}

\* the registry was handed an instance for the name (register_provider)
Registered(name) == name \in DOMAIN providers /\ providers[name].serial = 0

\* the target names no provider, or one the registry has no instance, no
\* class and no module for; an instance could then only have been registered
NoAdapterFor(t) ==
    \/ "provider" \notin DOMAIN t
    \/ /\ ~Registered(t.provider)
       /\ t.provider \notin provider_classes
       /\ t.provider \notin PackageModules

\* C19: when the resolved target names a provider for which the registry
\* holds no instance, no class and no loadable module, or names no provider,
\* a chat or streaming chat call fails with ProviderNotFoundError and no
\* adapter operation is invoked.
C19_NoAdapterFails ==
    (call # None /\ Cur.kind \in ChatKinds /\ Cur.target # None /\ Cur.state # "Routed"
       /\ NoAdapterFor(The(Cur.target))) =>
        /\ Cur.state = "Failed"
        /\ The(Cur.cause).kind = "ProviderNotFoundError"
        /\ Cur.result = Some(Raised(The(Cur.cause)))
        /\ Cur.invoked = <<>>

\* a target whose provider has a module entry but no module in the package
C19_Witness ==
    /\ call # None
    /\ Cur.kind = "stream"
    /\ Cur.target = Some(Tgt(<<"gem-up">>, "gemini"))
    /\ Cur.state = "Failed"
    /\ The(Cur.cause).kind = "ProviderNotFoundError"
    /\ Cur.invoked = <<>>

\* a target that names no provider
C19_WitnessNoProvider ==
    /\ call # None
    /\ Cur.kind = "chat"
    /\ Cur.target # None
    /\ "provider" \notin DOMAIN The(Cur.target)
    /\ Cur.state = "Failed"
    /\ The(Cur.cause) = Err("ProviderNotFoundError",
                            <<"No provider specified for model", Some(<<"gpt-up">>)>>)

(***************************************************************************)
(* Registry harness: get_provider called by several callers. A call is     *)
(* followed statement by statement: the lookups, the constructor, the      *)
(* assignment to _providers.                                               *)
(***************************************************************************)
SuspendsAnywhere(pc) == TRUE

\* Can the thread leave a get_provider call that stands at pc for another
\* caller: get_provider is a plain def without an await, and its callers are
\* coroutines of one event loop, so a call runs from entry to return.
Suspends(pc) == FALSE

\* may caller p take the next step of its call
Holds(p) == running = None \/ running = Some(p)

\* who holds the thread after a step that leaves the call at pc
ThreadAfter(p, pc) == IF pc = "done" \/ Suspends(pc) THEN None ELSE Some(p)

InitReg ==
    /\ router_map = InitialRouterMap
    /\ loaded = FALSE
    /\ models = EmptyCatalog
    /\ models_file = None
    /\ providers \in {NoProviders, StartupProviders}
    /\ RegistryIdle
    /\ records = <<>>
    /\ call = None
    /\ ncalls = 0
    /\ lastReq = None
    /\ lastDraw = None
    /\ lastPick = None
    /\ lastRes = None
    /\ routeCount = 0

RegOthersUnchanged ==
    UNCHANGED <<router_map, models, loaded, models_file, records, call, ncalls,
                lastReq, lastDraw, lastPick, lastRes, routeCount,
                adapter, reload, limiter>>

\* register_provider_class
RegisterProviderClass ==
    /\ running = None
    /\ "custom" \notin provider_classes
    /\ provider_classes' = provider_classes \cup {"custom"}
    /\ UNCHANGED <<providers, gp, built, running>>
    /\ RegOthersUnchanged

\* a caller enters get_provider(name)
GpCall ==
    /\ running = None
    /\ \E p \in Callers, name \in ProviderNames :
         /\ gp[p].pc = "idle"
         /\ gp' = [gp EXCEPT ![p] =
                     [pc |-> "lookup", name |-> name,
                      before |-> Some([providers |-> providers, classes |-> provider_classes]),
                      known |-> name \in DOMAIN providers
                                  \/ Constructible(provider_classes, name),
                      local |-> None, result |-> None]]
         /\ running' = ThreadAfter(p, "lookup")
    /\ UNCHANGED <<providers, provider_classes, built>>
    /\ RegOthersUnchanged

\* the lookups: an instance is returned, a class is found, or None is returned
GpLookup ==
    /\ \E p \in Callers :
         /\ gp[p].pc = "lookup"
         /\ Holds(p)
         /\ IF gp[p].name \in DOMAIN providers
            THEN /\ gp' = [gp EXCEPT ![p].pc = "done",
                                     ![p].result = Some(providers[gp[p].name])]
                 /\ running' = ThreadAfter(p, "done")
            ELSE IF Constructible(provider_classes, gp[p].name)
            THEN /\ gp' = [gp EXCEPT ![p].pc = "construct"]
                 /\ running' = ThreadAfter(p, "construct")
            ELSE /\ gp' = [gp EXCEPT ![p].pc = "done", ![p].result = None]
                 /\ running' = ThreadAfter(p, "done")
    /\ UNCHANGED <<providers, provider_classes, built>>
    /\ RegOthersUnchanged

\* provider = provider_class()
GpConstruct ==
    /\ \E p \in Callers :
         /\ gp[p].pc = "construct"
         /\ Holds(p)
         /\ built' = [built EXCEPT ![gp[p].name] = @ + 1]
         /\ gp' = [gp EXCEPT ![p].pc = "store",
                             ![p].local = Some(Instance(gp[p].name, built[gp[p].name] + 1))]
         /\ running' = ThreadAfter(p, "store")
    /\ UNCHANGED <<providers, provider_classes>>
    /\ RegOthersUnchanged

\* self._providers[provider_name] = provider; return provider
GpStore ==
    /\ \E p \in Callers :
         /\ gp[p].pc = "store"
         /\ Holds(p)
         /\ providers' = (gp[p].name :> The(gp[p].local)) @@ providers
         /\ gp' = [gp EXCEPT ![p].pc = "done", ![p].result = gp[p].local]
         /\ running' = ThreadAfter(p, "done")
    /\ UNCHANGED <<provider_classes, built>>
    /\ RegOthersUnchanged

NextReg ==
    \/ RegisterProviderClass
    \/ GpCall
    \/ GpLookup
    \/ GpConstruct
    \/ GpStore

SpecReg == InitReg /\ [][NextReg]_vars

\* the calls of get_provider(n) that have returned
Done(n) == { p \in Callers : gp[p].pc = "done" /\ gp[p].name = n }

C20_WitnessClass ==
    /\ Cardinality(Done("custom")) >= 2
    /\ built["custom"] = 1
    /\ \A p \in Done("custom") : gp[p].result = Some(Instance("custom", 1))


(***************************************************************************)
(* Claims about the failure record's attribution                           *)
(***************************************************************************)
\* C21: when an embeddings or image call on an executor with a usage storage
\* had its provider adapter resolved for the requested model and the
\* adapter's call then failed, the success=false usage record names that
\* resolved provider, the catalog's provider for the model, not "unknown".
C21_DirectFailureAttributed ==
    (call # None /\ Cur.kind \notin ChatKinds /\ Cur.storage /\ AdapterFailed(Cur)) =>
        /\ FailureRecordsOf(Cur.id) # {}
        /\ \A k \in FailureRecordsOf(Cur.id) :
              /\ GetModel(models, Cur.request.model) # None
              /\ records[k].provider = The(GetModel(models, Cur.request.model)).provider
              /\ records[k].provider = The(Cur.provider_name)


\* the chat or streaming chat call ended because routing raised: no target
\* was ever resolved
RoutingFailed(c) ==
    /\ c.kind \in ChatKinds
    /\ c.state = "Failed"
    /\ c.routed = 1
    /\ c.target = None
    /\ c.context.target_model = None
    /\ c.context.target_provider = None

\* C22 as stated: when routing itself fails before a target exists, the
\* success=false usage record written for the call names "unknown" both as
\* its provider and as its model.
C22_RoutingFailureUnknown ==
    (call # None /\ RoutingFailed(Cur)) =>
        \A k \in FailureRecordsOf(Cur.id) :
            /\ records[k].provider = "unknown"
            /\ records[k].model = <<"unknown">>

\* C22 amended: when routing itself fails before a target exists (unknown
\* model id, missing router, empty router), the success=false usage record
\* written for the call names "unknown" as its provider and the model id of
\* the caller's request as its model, carries the routing error's message
\* and zero token counts, and is the only record of the call.
C22_RoutingFailureAttribution ==
    (call # None /\ RoutingFailed(Cur)) =>
        /\ Cardinality(RecordsOf(Cur.id)) <= 1
        /\ \A k \in RecordsOf(Cur.id) :
              /\ records[k].success = FALSE
              /\ records[k].provider = "unknown"
              /\ records[k].model = Cur.request.model
              /\ records[k].total_tokens = 0
              /\ records[k].error = Some(The(Cur.cause).msg)
              /\ The(Cur.cause).kind \in {"ModelNotFoundError", "RouterError"}

\* a router reference to a router the engine does not hold, recorded
C22_Witness ==
    /\ call # None
    /\ RoutingFailed(Cur)
    /\ Cur.storage
    /\ Cur.request.model = <<"router", "/", "missing">>
    /\ \E k \in FailureRecordsOf(Cur.id) :
          records[k].provider = "unknown" /\ records[k].model = Cur.request.model

\* an empty router, recorded
C22_WitnessEmptyRouter ==
    /\ call # None
    /\ RoutingFailed(Cur)
    /\ Cur.storage
    /\ ~Cur.http
    /\ Cur.request.model = <<"router", "/", "efb">>
    /\ The(Cur.cause).kind = "RouterError"
    /\ FailureRecordsOf(Cur.id) # {}

\* an unknown model id, recorded
C22_WitnessUnknownModel ==
    /\ call # None
    /\ RoutingFailed(Cur)
    /\ Cur.storage
    /\ Cur.request.model = <<"nomodel">>
    /\ The(Cur.cause).kind = "ModelNotFoundError"
    /\ FailureRecordsOf(Cur.id) # {}


(***************************************************************************)
(* Claims about the server-sent-event stream                               *)
(***************************************************************************)
IsSse == call # None /\ Cur.sse # "none"
Events == Cur.events
EventsOf(kind) == { i \in 1..Len(Events) : Events[i].event = kind }

\* the first n events are the data events of the first n delivered chunks
DataPrefix(c, n) ==
    /\ n <= Len(c.events)
    /\ n <= Len(c.delivered)
    /\ \A i \in 1..n :
          /\ c.events[i].event = "data"
          /\ c.events[i].body = c.delivered[i].content

\* the stream ends with one error event of that status code and the marker
EndsWithError(c, n, code) ==
    /\ Len(c.events) = n + 2
    /\ c.events[n + 1].event = "error"
    /\ c.events[n + 1].code = code
    /\ c.events[n + 2].event = "done"

C23_Events ==
    IsSse =>
        /\ Cardinality(EventsOf("done")) <= 1
        /\ Cardinality(EventsOf("error")) <= 1
        /\ \A i \in EventsOf("done") : i = Len(Events)
        /\ \A i \in EventsOf("error") : i = Len(Events) - 1
        /\ (Cur.sse = "closed") <=> (EventsOf("done") # {})
        \* the executor's stream completed
        /\ Cur.state = "Completed" =>
              /\ Cur.sse = "closed"
              /\ EventsOf("error") = {}
              /\ Len(Events) = Len(Cur.delivered) + 1
              /\ DataPrefix(Cur, Len(Cur.delivered))
        \* the executor's stream raised a GatewayError
        /\ (Cur.state = "Failed" /\ ~Abandoned(Cur)) =>
              /\ Cur.sse = "closed"
              /\ IsGatewayError(The(Cur.cause))
              /\ DataPrefix(Cur, Len(Cur.delivered))
              /\ EndsWithError(Cur, Len(Cur.delivered), 400)
              /\ Events[Len(Cur.delivered) + 1].body = StrOf(The(Cur.cause))
        \* any other exception: the chunk the executor yielded last was not sent
        /\ (Cur.sse = "closed" /\ (Cur.state = "Executing" \/ Abandoned(Cur))) =>
              /\ Cur.delivered # <<>>
              /\ DataPrefix(Cur, Len(Cur.delivered) - 1)
              /\ EndsWithError(Cur, Len(Cur.delivered) - 1, 500)

\* the generator only adds events, and none once it has returned
C23_Step ==
    (SameCall /\ Cur.sse # "none") =>
        /\ IsPrefix(Cur.events, The(call').events)
        /\ Cur.sse = "closed" => The(call').events = Cur.events /\ The(call').sse = "closed"

\* C23: every server-sent-event stream of streaming_chat_completion that its
\* generator finishes carries the end-of-stream marker exactly once, as its
\* last event: after the data events of all chunks when the executor's stream
\* completes; after the chunks already sent and exactly one error event when
\* the executor's stream raises a GatewayError (code 400) or when any other
\* exception arises (code 500). Nothing follows the marker.
C23_DoneOnceAndLast ==
    /\ []C23_Events
    /\ [][C23_Step]_vars

\* a GatewayError after one chunk was sent
C23_Witness ==
    /\ IsSse
    /\ AdapterFailed(Cur)
    /\ Len(Events) = 3
    /\ Events[1].event = "data"
    /\ Events[2].event = "error"
    /\ Events[2].code = 400
    /\ Events[3].event = "done"

\* the stream completed after two chunks
C23_WitnessCompleted ==
    /\ IsSse
    /\ Cur.state = "Completed"
    /\ Len(Events) = 3
    /\ Events[2].event = "data"
    /\ Events[3].event = "done"

\* an exception that is no GatewayError, after one chunk was sent
C23_WitnessOtherException ==
    /\ IsSse
    /\ Cur.sse = "closed"
    /\ Len(Cur.delivered) = 2
    /\ Len(Events) = 3
    /\ Events[1].event = "data"
    /\ Events[2].event = "error"
    /\ Events[2].code = 500
    /\ Events[3].event = "done"

\* routing failed before any chunk: the error event and the marker alone
C23_WitnessRoutingError ==
    /\ IsSse
    /\ RoutingFailed(Cur)
    /\ Len(Events) = 2
    /\ Events[1].event = "error"
    /\ Events[2].event = "done"


(***************************************************************************)
(* The provider adapters (gateway/providers/openai.py, anthropic.py)       *)
(***************************************************************************)
AdapterProviders == {"openai", "anthropic"}
ChatMethods == {"create_chat_completion", "create_streaming_chat_completion"}

\* every sequence over S of length lo..hi
SeqsOf(S, lo, hi) == UNION { [1..n -> S] : n \in lo..hi }

\* Pieces of text an exception's str() is made of, as the upstream library or
\* the adapter's own code words them
ErrorWords ==
    { "Authentication", "authentication", "API key", "api key",
      "Rate limit", "rate limit", "timeout", "Bad Request" }

\* str.lower()
Lower(word) ==
    CASE word = "Authentication" -> "authentication"
      [] word = "API key" -> "api key"
      [] word = "Rate limit" -> "rate limit"
      [] word = "Bad Request" -> "bad request"
      [] OTHER -> word

\* marker in error_message.lower()
InLowered(marker, message) == \E i \in 1..Len(message) : Lower(message[i]) = marker

\* "OpenAI" / "Anthropic", as the messages of the two adapters begin
DisplayName(provider) == IF provider = "openai" THEN "OpenAI" ELSE "Anthropic"

AdapterFailureRateLimitFirst(provider, message) ==
    IF InLowered("rate limit", message)
    THEN Err("RateLimitExceededError", <<DisplayName(provider), "rate limit exceeded">> \o message)
    ELSE IF InLowered("authentication", message) \/ InLowered("api key", message)
    THEN Err("AuthenticationError", <<DisplayName(provider), "authentication error">> \o message)
    ELSE Err("ProviderError", <<DisplayName(provider), "error">> \o message)

\* the except branch that ends each chat operation of both adapters: what is
\* raised for an exception whose str() is message
AdapterFailure(provider, message) ==
    IF InLowered("authentication", message) \/ InLowered("api key", message)
    THEN Err("AuthenticationError", <<DisplayName(provider), "authentication error">> \o message)
    ELSE IF InLowered("rate limit", message)
    THEN Err("RateLimitExceededError", <<DisplayName(provider), "rate limit exceeded">> \o message)
    ELSE Err("ProviderError", <<DisplayName(provider), "error">> \o message)

\* Role: the members and their values
Roles == {"SYSTEM", "USER", "ASSISTANT", "TOOL", "FUNCTION"}
RoleValue(role) ==
    CASE role = "SYSTEM" -> "system"
      [] role = "USER" -> "user"
      [] role = "ASSISTANT" -> "assistant"
      [] role = "TOOL" -> "tool"
      [] role = "FUNCTION" -> "function"

\* ChatMessage with text content
ChatMessage(role, content) == [role |-> role, content |-> content]

\* OpenAIProvider._convert_messages: one upstream message per message
OpenAIConvertMessages(messages) ==
    [i \in 1..Len(messages) |->
        [role |-> RoleValue(messages[i].role), content |-> messages[i].content]]

\* AnthropicProvider._convert_messages: a branch for system, user, assistant
\* and tool messages; a message of any other role is appended nowhere
RECURSIVE AnthropicConvertMessages(_)
AnthropicConvertMessages(messages) ==
    IF messages = <<>> THEN <<>>
    ELSE LET message == Head(messages)
             rest == AnthropicConvertMessages(Tail(messages))
         IN IF message.role = "SYSTEM"
            THEN << [role |-> "system", content |-> message.content] >> \o rest
            ELSE IF message.role = "USER"
            THEN << [role |-> "user", content |-> message.content] >> \o rest
            ELSE IF message.role = "ASSISTANT"
            THEN << [role |-> "assistant", content |-> message.content] >> \o rest
            ELSE IF message.role = "TOOL"
            THEN << [role |-> "tool", content |-> message.content] >> \o rest
            ELSE rest

ConvertMessages(provider, messages) ==
    IF provider = "openai" THEN OpenAIConvertMessages(messages)
    ELSE AnthropicConvertMessages(messages)

\* FinishReason(value): the member of that value
FinishReason(value) ==
    CASE value = "stop" -> "STOP"
      [] value = "length" -> "LENGTH"
      [] value = "content_filter" -> "CONTENT_FILTER"
      [] value = "tool_calls" -> "TOOL_CALLS"
      [] value = "function_call" -> "FUNCTION_CALL"

\* what the two upstreams report as the reason a generation stopped
OpenAIFinishReasons == {"stop", "length", "tool_calls"}
AnthropicStopReasons == {"end_turn", "stop_sequence", "max_tokens", "tool_use"}

\* AnthropicProvider._map_stop_reason
MapStopReason(stop_reason) ==
    IF stop_reason = None THEN None
    ELSE IF The(stop_reason) = "end_turn" THEN Some("STOP")
    ELSE IF The(stop_reason) = "max_tokens" THEN Some("LENGTH")
    ELSE IF The(stop_reason) = "tool_use" THEN Some("TOOL_CALLS")
    ELSE Some("STOP")

\* the choices of the gateway response: one per upstream choice for OpenAI,
\* a single one for Anthropic
ResponseChoices(provider, reasons) ==
    IF provider = "openai"
    THEN [i \in 1..Len(reasons) |->
            [index |-> i - 1,
             finish_reason |-> IF reasons[i] = None THEN None
                               ELSE Some(FinishReason(The(reasons[i])))]]
    ELSE << [index |-> 0, finish_reason |-> MapStopReason(reasons[1])] >>

\* An upstream answer: content blocks, each the sequence of text deltas the
\* upstream cuts it into when streaming
RECURSIVE Flatten(_)
Flatten(seqs) == IF seqs = <<>> THEN <<>> ELSE Head(seqs) \o Flatten(Tail(seqs))

AnswerDeltas == { <<"one">>, <<"two", "three">> }
AnswerBlocks == SeqsOf(AnswerDeltas, 1, MaxDeltas)
UpstreamAnswers == SeqsOf(AnswerBlocks, 0, MaxBlocks)

\* the text of a content block of the non-streaming upstream response
BlockText(block) == Flatten(block)

\* create_chat_completion: response.content[0].text if response.content else ""
AnthropicMessageContent(answer) ==
    IF answer = <<>> THEN <<>> ELSE BlockText(answer[1])

\* create_streaming_chat_completion: one chunk per content_block_delta event,
\* then the chunk of message_stop with an empty delta
AnthropicChunks(answer) ==
    LET deltas == Flatten(answer)
    IN [i \in 1..(Len(deltas) + 1) |->
          IF i <= Len(deltas)
          THEN [content |-> Some(deltas[i]), finish_reason |-> None]
          ELSE [content |-> None, finish_reason |-> MapStopReason(Some("end_turn"))]]

\* execute_streaming_chat_completion's loop: every chunk is yielded as it comes
DrainedChunks(chunks) == chunks

\* the text content of the chunks, concatenated in delivery order
RECURSIVE ChunkText(_)
ChunkText(chunks) ==
    IF chunks = <<>> THEN <<>>
    ELSE (IF Head(chunks).content = None THEN <<>> ELSE The(Head(chunks).content))
         \o ChunkText(Tail(chunks))

(***************************************************************************)
(* The adapter operations, applied to bounded inputs                       *)
(***************************************************************************)
InitAdapter ==
    /\ router_map = InitialRouterMap
    /\ loaded = FALSE
    /\ models = EmptyCatalog
    /\ models_file = None
    /\ providers = StartupProviders
    /\ RegistryIdle
    /\ records = <<>>
    /\ call = None
    /\ ncalls = 0
    /\ lastReq = None
    /\ lastDraw = None
    /\ lastPick = None
    /\ lastRes = None
    /\ routeCount = 0

AdapterOthersUnchanged ==
    UNCHANGED <<router_map, models, loaded, models_file, providers, records, call, ncalls,
                lastReq, lastDraw, lastPick, lastRes, routeCount,
                provider_classes, gp, built, running, reload, limiter>>

\* a chat operation of an adapter fails inside its try block
AdapterFails ==
    /\ \E provider \in AdapterProviders, method \in ChatMethods :
         \E message \in SeqsOf(ErrorWords, 0, MaxWords) :
            adapter' = Some([op |-> "fails", provider |-> provider, method |-> method,
                             input |-> message,
                             output |-> AdapterFailure(provider, message)])
    /\ AdapterOthersUnchanged

\* _convert_messages on a list of canonical messages
AdapterConverts ==
    /\ \E provider \in AdapterProviders :
         \E roles \in SeqsOf(Roles, 0, MaxMessages) :
            LET messages == [i \in 1..Len(roles) |-> ChatMessage(roles[i], <<"hello">>)]
            IN adapter' = Some([op |-> "converts", provider |-> provider,
                                method |-> "_convert_messages",
                                input |-> messages,
                                output |-> ConvertMessages(provider, messages)])
    /\ AdapterOthersUnchanged

\* the upstream response of a non-streaming call is translated back
AdapterTranslates ==
    /\ \E provider \in AdapterProviders :
         \E reasons \in (IF provider = "openai"
                         THEN SeqsOf({None} \cup {Some(r) : r \in OpenAIFinishReasons}, 1, 2)
                         ELSE SeqsOf({None} \cup {Some(r) : r \in AnthropicStopReasons}, 1, 1)) :
            adapter' = Some([op |-> "translates", provider |-> provider,
                             method |-> "create_chat_completion",
                             input |-> reasons,
                             output |-> ResponseChoices(provider, reasons)])
    /\ AdapterOthersUnchanged

\* one upstream answer, asked for without and with streaming
AdapterAnswers ==
    /\ \E answer \in UpstreamAnswers :
         adapter' = Some([op |-> "answers", provider |-> "anthropic",
                          method |-> "create_chat_completion",
                          input |-> answer,
                          output |-> [content |-> AnthropicMessageContent(answer),
                                      chunks |-> DrainedChunks(AnthropicChunks(answer))]])
    /\ AdapterOthersUnchanged

NextAdapter ==
    \/ AdapterFails
    \/ AdapterConverts
    \/ AdapterTranslates
    \/ AdapterAnswers

SpecAdapter == InitAdapter /\ [][NextAdapter]_vars

(***************************************************************************)
(* Claims about the adapters                                               *)
(***************************************************************************)
Ran(op) == adapter # None /\ The(adapter).op = op
Adp == The(adapter)

\* what the failure's text tells, word by word
CredentialWords == {"Authentication", "authentication", "API key", "api key"}
ThrottleWords == {"Rate limit", "rate limit"}
SignalsCredentials(message) == \E i \in 1..Len(message) : message[i] \in CredentialWords
SignalsThrottling(message) == \E i \in 1..Len(message) : message[i] \in ThrottleWords

\* C24: every failure of create_chat_completion or
\* create_streaming_chat_completion of the OpenAI and the Anthropic adapter
\* surfaces as exactly one of AuthenticationError (the failure tells of
\* rejected credentials), RateLimitExceededError (it tells of throttling and
\* not of credentials) and ProviderError (every other failure); a failure
\* that tells of both is an AuthenticationError; all three are GatewayErrors.
C24_ThreeKinds ==
    Ran("fails") =>
        LET e == Adp.output
            message == Adp.input
        IN /\ e.kind \in {"AuthenticationError", "RateLimitExceededError", "ProviderError"}
           /\ IsGatewayError(e)
           /\ SignalsCredentials(message) <=> e.kind = "AuthenticationError"
           /\ (SignalsThrottling(message) /\ ~SignalsCredentials(message))
                 <=> e.kind = "RateLimitExceededError"
           /\ (~SignalsThrottling(message) /\ ~SignalsCredentials(message))
                 <=> e.kind = "ProviderError"

\* a failure that tells of throttling and of credentials
C24_Witness ==
    /\ Ran("fails")
    /\ Adp.input = <<"Rate limit", "API key">>
    /\ Adp.method = "create_streaming_chat_completion"
    /\ Adp.output.kind = "AuthenticationError"

C24_WitnessOther ==
    /\ Ran("fails")
    /\ Adp.input = <<"timeout">>
    /\ Adp.output.kind = "ProviderError"

\* C25: both adapters translate a list of n canonical messages into n
\* upstream messages, the i-th carrying the role of the i-th canonical
\* message, for every role of Role; and an upstream choice that ended normally
\* comes back as a choice with finish_reason=stop.
C25_RolesAndCountPreserved ==
    /\ Ran("converts") =>
          /\ Len(Adp.output) = Len(Adp.input)
          /\ \A i \in 1..Len(Adp.input) :
                i <= Len(Adp.output) /\ Adp.output[i].role = RoleValue(Adp.input[i].role)
    /\ Ran("translates") =>
          /\ Len(Adp.output) = Len(Adp.input)
          /\ \A i \in 1..Len(Adp.input) :
                (Adp.input[i] # None /\ The(Adp.input[i]) \in {"stop", "end_turn", "stop_sequence"})
                   => Adp.output[i].finish_reason = Some("STOP")

\* C26: for one upstream answer, the text content of all chunks of the
\* drained streaming call, concatenated in delivery order, equals the message
\* content of the non-streaming response, however the upstream cuts the
\* answer into content blocks and deltas.
C26_StreamEqualsResponse ==
    Ran("answers") => ChunkText(Adp.output.chunks) = Adp.output.content


(***************************************************************************)
(* Claims about the request handed to the adapter                          *)
(***************************************************************************)
\* the value a target's key gives the request's field of that name
TargetValue(target, field) ==
    IF field = "temperature" THEN Some(target[field]) ELSE target[field]

C27_Handed ==
    (call # None /\ Cur.kind = "chat" /\ Cur.invoked # <<>>) =>
        LET handed == Cur.invoked[1].request
            target == The(Cur.target)
            request == Cur.request
        IN /\ DOMAIN handed = DOMAIN request
           /\ "model" \in DOMAIN target => handed.model = target.model
           /\ \A field \in DOMAIN request \ {"model"} :
                 IF field \in DOMAIN target
                 THEN handed[field] = TargetValue(target, field)
                 ELSE handed[field] = request[field]

C27_CallerUnchanged ==
    SameCall => The(call').request = Cur.request

ModelEntry(id, def, valid) == [id |-> id, def |-> def, valid |-> valid]
ModelEntries ==
    { ModelEntry(<<"gpt">>, ModelDef(<<"gpt-up">>, "openai"), TRUE),
      ModelEntry(<<"gpt">>, ModelDef(<<"gpt-next">>, "azure"), TRUE),
      ModelEntry(<<"new">>, ModelDef(<<"new-up">>, "anthropic"), TRUE),
      ModelEntry(<<"bad">>, ModelDef(<<>>, ""), FALSE) }

\* What a models path holds: nothing ("missing"), a file that cannot be
\* opened or is no YAML ("unreadable"), a YAML document that is no list
\* ("notalist"), or a list of entries
Source(kind, entries) == [kind |-> kind, entries |-> entries]
Sources ==
    { Source(k, <<>>) : k \in {"missing", "unreadable", "notalist"} } \cup
    { Source("list", es) : es \in SeqsOf(ModelEntries, 0, MaxEntries) }

\* self._models[model.model] = model
PutModel(ms, id, def) ==
    [x \in DOMAIN ms \cup {id} |-> IF x = id THEN def ELSE ms[x]]

\* the loop over models_data: an entry that does not validate is skipped
RECURSIVE LoadEntries(_, _)
LoadEntries(ms, entries) ==
    IF entries = <<>> THEN ms
    ELSE LoadEntries(IF Head(entries).valid
                     THEN PutModel(ms, Head(entries).id, Head(entries).def)
                     ELSE ms,
                     Tail(entries))

\* _load_models_from_file: every exception is logged and swallowed
LoadModelsFromFile(ms, source) ==
    IF source.kind = "list" THEN LoadEntries(ms, source.entries) ELSE ms

\* load_models(models_path, force_reload): (_models, _loaded) after the call
LoadModelsFrom(ms, ld, source, force_reload) ==
    IF ld /\ ~force_reload THEN [models |-> ms, loaded |-> ld]
    ELSE IF source.kind = "missing" THEN [models |-> ms, loaded |-> ld]
    ELSE [models |-> LoadModelsFromFile(EmptyCatalog, source), loaded |-> TRUE]

InitCatalog ==
    /\ router_map = InitialRouterMap
    /\ InitRegistry
    /\ providers = StartupProviders
    /\ RegistryIdle
    /\ records = <<>>
    /\ call = None
    /\ ncalls = 0
    /\ lastReq = None
    /\ lastDraw = None
    /\ lastPick = None
    /\ lastRes = None
    /\ routeCount = 0

CatalogOthersUnchanged ==
    UNCHANGED <<router_map, models_file, providers, records, call, ncalls,
                lastReq, lastDraw, lastPick, lastRes, routeCount,
                provider_classes, gp, built, running, adapter, limiter>>

\* load_models is called with a path
CatalogLoad ==
    /\ \E source \in Sources, force_reload \in BOOLEAN :
         LET res == LoadModelsFrom(models, loaded, source, force_reload)
         IN /\ models' = res.models
            /\ loaded' = res.loaded
            /\ reload' = Some([source |-> source, force_reload |-> force_reload,
                               before |-> models, was_loaded |-> loaded])
    /\ CatalogOthersUnchanged

NextCatalog == CatalogLoad

SpecCatalog == InitCatalog /\ [][NextCatalog]_vars

(***************************************************************************)
(* Claims about the catalog                                                *)
(***************************************************************************)
\* the definitions of a source that can be read: for each id, the last entry
\* that validates
ValidEntries(es) == { i \in 1..Len(es) : es[i].valid }
LastValid(es, id) ==
    CHOOSE i \in ValidEntries(es) :
        /\ es[i].id = id
        /\ \A j \in ValidEntries(es) : es[j].id = id => j <= i
NewSet(source) ==
    [id \in { source.entries[i].id : i \in ValidEntries(source.entries) } |->
        source.entries[LastValid(source.entries, id)].def]
CanBeRead(source) == source.kind = "list"

\* C28: after load_models with force_reload the catalog holds exactly the
\* definitions of the new source, or, when the source cannot be read or
\* parsed, exactly the catalog that was loaded before: never a part of the new
\* set, never nothing in place of the previous set.
C28_ReloadWholesale ==
    (reload # None /\ The(reload).force_reload) =>
        IF CanBeRead(The(reload).source)
        THEN models = NewSet(The(reload).source)
        ELSE models = The(reload).before

(***************************************************************************)
(* Claims about the percentage strategy's zero weights                     *)
(***************************************************************************)
\* C29: a percentage router with as many weights as targets and a positive
\* weight sum never returns a target whose weight is 0, whatever the draw in
\* [0, 100), a draw of exactly 0 and draws on a cumulative weight included.
C29_ZeroWeightNeverReturned ==
    (ResolvedPct /\ WellFormedPercentage(PctRouter) /\ Res.outcome = "returned") =>
        \A i \in 1..Len(PctRouter.targets) :
            PctRouter.targets[i] = Res.value =>
                PctRouter.strategy.targets_percentages[i] # 0

(***************************************************************************)
(* RateLimiter (gateway/middleware/rate_limit.py)                          *)
(***************************************************************************)
LimiterKeys == {"k1", "k2"}
LimiterCallers == 1..MaxLimiterCallers

\* self.requests.get(key, (0, current_time))
EntryOf(requests, key, current_time) ==
    IF requests[key] = None THEN [count |-> 0, start_time |-> current_time]
    ELSE The(requests[key])

\* check_rate_limit under the lock, which holds no await: what it returns
\* and self.requests after it
CheckRateLimit(requests, rate_limit, period, key, current_time) ==
    LET entry == EntryOf(requests, key, current_time)
        expired == current_time - entry.start_time > period
        count == IF expired THEN 0 ELSE entry.count
        start_time == IF expired THEN current_time ELSE entry.start_time
    IN IF count >= rate_limit
       THEN [allowed |-> FALSE, requests |-> requests]
       ELSE [allowed |-> TRUE,
             requests |-> [requests EXCEPT ![key] =
                              Some([count |-> count + 1, start_time |-> start_time])]]

\* RateLimiter.__init__ with the configured limit and period; the clock at 0,
\* no call pending, nothing granted
InitLimiter ==
    /\ router_map = InitialRouterMap
    /\ loaded = FALSE
    /\ models = EmptyCatalog
    /\ models_file = None
    /\ providers = StartupProviders
    /\ adapter = None
    /\ reload = None
    /\ provider_classes = ProviderClasses
    /\ gp = [p \in Callers |-> IdleCall]
    /\ built = [n \in ProviderNames |-> 0]
    /\ running = None
    /\ records = <<>>
    /\ call = None
    /\ ncalls = 0
    /\ lastReq = None
    /\ lastDraw = None
    /\ lastPick = None
    /\ lastRes = None
    /\ routeCount = 0
    /\ \E rate_limit \in 1..MaxRate, period \in 1..MaxPeriod :
         limiter = [rate_limit |-> rate_limit, period |-> period,
                    requests |-> [k \in LimiterKeys |-> None],
                    now |-> 0,
                    pending |-> [p \in LimiterCallers |-> None],
                    started |-> 0,
                    granted |-> [k \in LimiterKeys |-> <<>>],
                    last |-> None]

LimiterOthersUnchanged ==
    UNCHANGED <<router_map, models, loaded, models_file, providers, records, call, ncalls,
                lastReq, lastDraw, lastPick, lastRes, routeCount,
                provider_classes, gp, built, running, adapter, reload>>

\* time.time() moves on
LimiterTick ==
    /\ limiter.now < MaxTime
    /\ limiter' = [limiter EXCEPT !.now = @ + 1]
    /\ LimiterOthersUnchanged

\* a request calls check_rate_limit(key): the coroutine is scheduled
LimiterCall ==
    /\ limiter.started < MaxLimiterCalls
    /\ \E p \in LimiterCallers, key \in LimiterKeys :
         /\ limiter.pending[p] = None
         /\ limiter' = [limiter EXCEPT !.pending[p] = Some(key), !.started = @ + 1]
    /\ LimiterOthersUnchanged

\* one scheduled call runs: it takes the lock, which is free at every point
\* where the event loop switches, runs the body and returns
LimiterRun ==
    /\ \E p \in LimiterCallers :
         /\ limiter.pending[p] # None
         /\ LET key == The(limiter.pending[p])
                res == CheckRateLimit(limiter.requests, limiter.rate_limit, limiter.period,
                                      key, limiter.now)
            IN limiter' = [limiter EXCEPT
                             !.requests = res.requests,
                             !.pending[p] = None,
                             !.granted[key] = IF res.allowed THEN Append(@, limiter.now) ELSE @,
                             !.last = Some([key |-> key, allowed |-> res.allowed,
                                            before |-> limiter.requests,
                                            after |-> res.requests])]
    /\ LimiterOthersUnchanged

NextLimiter ==
    \/ LimiterTick
    \/ LimiterCall
    \/ LimiterRun

SpecLimiter == InitLimiter /\ [][NextLimiter]_vars

(***************************************************************************)
(* Claims about the rate limiter                                           *)
(***************************************************************************)
\* the calls for key that returned True at a time in [from, from + period)
GrantedWithin(key, from) ==
    { i \in 1..Len(limiter.granted[key]) :
        /\ limiter.granted[key][i] >= from
        /\ limiter.granted[key][i] < from + limiter.period }

\* a call that returned False changed nothing; a call changed no other key
C30_Frame ==
    limiter.last # None =>
        LET l == The(limiter.last)
        IN /\ ~l.allowed => l.after = l.before
           /\ \A k \in LimiterKeys \ {l.key} : l.after[k] = l.before[k]

\* C30: for every key and every interleaving of concurrent check_rate_limit
\* calls, the calls for that key that return True within any span of period
\* seconds number at most rate_limit; a call that returns False leaves the
\* stored count and window start of every key unchanged, and a call for one
\* key never changes the count of another.
C30_RateBounded ==
    /\ \A key \in LimiterKeys : \A from \in 0..MaxTime :
          Cardinality(GrantedWithin(key, from)) <= limiter.rate_limit
    /\ C30_Frame

====
